---- MODULE Spec2Model ----
(***************************************************************************)
(* State-machine model of the sourceweaver OSINT core: the provider rate   *)
(* limiters, the dorking / alias-search aggregation loops, the bulk        *)
(* analysis semaphore and the k-anonymity password check.                  *)
(*                                                                         *)
(* Every subsystem has its own specification (SpecRL, SpecAgg, SpecBulk,   *)
(* SpecPwd ...) over the module's variables; the variables of the          *)
(* subsystems a specification does not exercise stay at their idle value.  *)
(***************************************************************************)
EXTENDS Integers, Sequences, FiniteSets, TLC

(***************************************************************************)
(* Generic helpers                                                         *)
(***************************************************************************)
RECURSIVE SeqMin(_)
SeqMin(s) ==
  IF Len(s) = 1 THEN s[1]
  ELSE LET m == SeqMin(Tail(s)) IN IF s[1] < m THEN s[1] ELSE m

CeilDiv(a, b) == (a + b - 1) \div b

\* `sub in s` on Python strings
Contains(s, sub) ==
  \E i \in 1..(Len(s) - Len(sub) + 1) : SubSeq(s, i, i + Len(sub) - 1) = sub

SeqToSet(s) == { s[i] : i \in 1..Len(s) }

(***************************************************************************)
(* PART 1.  Provider rate limiters                                         *)
(*   GoogleSearchRateLimit.wait_if_needed  (google_search_client.py)       *)
(*   VirusTotalClient._wait_for_rate_limit (virustotal_client.py)          *)
(*                                                                         *)
(* Time is a discrete clock `now` counting ticks.  timedelta(minutes=1)    *)
(* is MinuteTicks ticks and one day is DayTicks ticks; Pacific midnight    *)
(* falls PacificOffset ticks after UTC midnight while daylight time is in  *)
(* force, and one tick later from DstEnd on, the instant at which          *)
(* America/Los_Angeles returns to standard time.  The 0.1 s grace sleep    *)
(* is shorter than a tick: it is a suspension point that may resume in     *)
(* the same tick.  A sleeping coroutine resumes at the first scheduling    *)
(* opportunity at or after its wake time, at most MaxLate ticks late.      *)
(***************************************************************************)
MinuteTicks == 2
DayTicks == 4
PacificOffset == 1
DstEnd == 6
MaxLate == 1
Horizon == 9
MaxCalls == 3
MaxQuota == 2
NCallers == 2

Callers == 1..NCallers
StartTime == DayTicks
MaxTime == StartTime + Horizon
\* an attempt may start only while the clock leaves room for its longest wait
Headroom == MinuteTicks + DayTicks + 2 * MaxLate
VtHeadroom == MinuteTicks + MaxLate

VARIABLES
  provider,            \* which limiter this behaviour exercises: "search" | "reputation"
  now,                 \* wall clock (datetime.utcnow() / time.time()), in ticks
  calls_per_day,       \* GoogleSearchRateLimit.calls_per_day
  calls_per_minute,    \* GoogleSearchRateLimit.calls_per_minute
  calls_today,         \* GoogleSearchRateLimit.calls_today (list of timestamps)
  calls_last_minute,   \* GoogleSearchRateLimit.calls_last_minute
  requests_per_minute, \* VirusTotalRateLimit.requests_per_minute
  requests_per_day,    \* VirusTotalRateLimit.requests_per_day
  last_request_time,   \* VirusTotalClient.last_request_time
  daily_request_count, \* VirusTotalClient.daily_request_count
  last_reset_time,     \* VirusTotalClient.last_reset_time
  pc,                  \* per coroutine: where it is suspended
  now_utc,             \* per coroutine: the local now_utc captured on entry
  wake,                \* per coroutine: the time its asyncio.sleep ends
  admitted,            \* history: the times at which calls were recorded
  raisedCount,         \* history: admission attempts that raised
  started,             \* history: admission attempts started
  overlapped           \* history: some attempt started while another was in progress

rlVars == << provider, now, calls_per_day, calls_per_minute, calls_today,
             calls_last_minute, requests_per_minute, requests_per_day,
             last_request_time, daily_request_count, last_reset_time,
             pc, now_utc, wake, admitted, raisedCount, started, overlapped >>

VARIABLES
  service,                  \* which service this behaviour exercises: "dorking" | "alias_search"
  alias_dorking_templates,  \* dorking_templates.alias_dorking_templates (module-level list)
  domain_dorking_templates, \* dorking_templates.domain_dorking_templates
  dk_status,                \* analyze_*_comprehensive: "idle" | "running" | "done" | "raised"
  dk_kind,                  \* "alias" | "domain"
  priority_filter,          \* the request's priority_filter (None when absent)
  category_filter,          \* the request's category_filter (None when absent)
  templates,                \* the local list `templates` the loop iterates over
  dk_idx,                   \* loop position in `templates`
  results,                  \* the `results` dict under construction
  dispatched,               \* history: templates handed to google_client.search, in order
  failingUsers,             \* environment: usernames for which every provider call fails
  sa_status,                \* search_alias: "idle" | "searching" | "returned" | "http400"
  sa_username,
  filtered_queries,         \* the platforms to search, in dict order
  platform_results,
  sa_counts,                \* successful_searches / failed_searches / total_results
  sa_result,                \* the AliasSearchResult search_alias returned
  bulk_status,              \* bulk_alias_search: "idle" | "running" | "returned"
  bulk_request,             \* BulkAliasSearchRequest
  bulk_idx,
  bulk_results,             \* results: username -> AliasSearchResult
  bulk_counts               \* successful_searches / failed_searches

aggVars == << service, alias_dorking_templates, domain_dorking_templates, dk_status,
              dk_kind, priority_filter, category_filter, templates, dk_idx, results,
              dispatched, failingUsers, sa_status, sa_username, filtered_queries,
              platform_results, sa_counts, sa_result, bulk_status, bulk_request,
              bulk_idx, bulk_results, bulk_counts >>

VARIABLES
  bk_status,       \* POST /analyze/bulk: "idle" | "gathering" | "responded" | "http400" | "http500"
  max_concurrent,  \* the endpoint's max_concurrent query parameter
  semaphore,       \* asyncio.Semaphore: its internal counter
  tasks,           \* per request: "waiting" (on the semaphore) | "running" | "done"
  responses,       \* per request: the AnalysisResponse status, None until it exists
  stats            \* AnalysisManager.stats

bulkVars == << bk_status, max_concurrent, semaphore, tasks, responses, stats >>

VARIABLES
  pw_status,       \* POST /pwnedpassword: "idle" | "requesting" | "responded" | "failed"
  password,        \* PwnedPasswordRequest.password
  add_padding,     \* PwnedPasswordRequest.add_padding
  request_sent,    \* the GET handed to session.get: url and params
  log_lines,       \* every line the router and the client logged for this request
  http_response,   \* what the endpoint returned: PwnedPasswordResponse or HTTPException
  response_data,   \* the lines of the range response _make_request returned
  outbound         \* history: for every check made, its inputs and the request sent

pwdVars == << pw_status, password, add_padding, request_sent, log_lines,
              http_response, response_data, outbound >>

VARIABLES
  ep_status,       \* an endpoint call: "idle" | "awaiting" (the provider) | "answered"
  ep_request,      \* the call: which endpoint, with which arguments
  provider_reply,  \* the HTTP response the provider client received
  client_outcome,  \* what the provider client returned or raised
  ep_response,     \* what the endpoint answered: status code and body / detail
  queries_issued   \* provider requests sent on behalf of this call

errVars == << ep_status, ep_request, provider_reply, client_outcome, ep_response,
              queries_issued >>

VARIABLES
  target_kind,     \* which script runs: "ip" | "domain" | "url"
  payload,         \* the results dict handed to calculate_threat_score
  clock,           \* what datetime.now() reads
  advanced,        \* how far the clock has moved since the start
  score_calls,     \* calls of calculate_threat_score made on the payload
  scored_at,       \* the reading of the clock at the latest call
  first_score,     \* what the first call returned
  last_score       \* what the latest call returned

scoreVars == << target_kind, payload, clock, advanced, score_calls, scored_at,
                first_score,
                last_score >>

VARIABLES
  gs_op,           \* the GoogleSearchClient operation in progress, or None
  gs_pc,           \* its position: "idle" | "info_admitted" | "admitted"
  gs_service,      \* GoogleSearchClient._service: None or "built"
  gs_recorded,     \* number of calls the client's limiter has recorded
  gs_requests,     \* number of requests sent to the provider
  gs_unsent,       \* operations that ended before sending their request
  gs_ops,          \* operations started so far
  gs_outcome       \* how the latest operation ended: None | "result" | "error"

opsVars == << gs_op, gs_pc, gs_service, gs_recorded, gs_requests, gs_unsent,
              gs_ops, gs_outcome >>

VARIABLES
  cl_kind,         \* the client: "virustotal" | "hibp"
  cl_session,      \* self.session: NoSession or the identity of a ClientSession
  cl_open,         \* the sessions this client created that are not closed
  cl_created,      \* number of sessions this client has created
  cl_last,         \* the latest operation: None | "enter" | "request" | "exit"
  cl_sent,         \* whether the latest request was sent: None | "sent" | "raised"
  cl_steps         \* operations performed so far

sessVars == << cl_kind, cl_session, cl_open, cl_created, cl_last, cl_sent,
               cl_steps >>

VARIABLES
  manager,         \* the application: "serving" | "stopped" (after shutdown)
  active_tasks,    \* AnalysisManager.active_tasks: task id -> task_info dict
  coroutine,       \* per task id, the state of its _run_async_analysis task
  process,         \* per task id, the state of its script subprocess
  next_task,       \* number of task ids handed out so far
  get_calls,       \* number of get_analysis_result calls so far
  got,             \* the latest get_analysis_result call and what it returned
  delivered        \* per task id, how often its final result was returned

mgrVars == << manager, active_tasks, coroutine, process, next_task, get_calls,
              got, delivered >>

VARIABLES
  be_pc,           \* bulk_email_check: "idle" | "loop" | "client" | "awaiting" | "done"
  be_emails,       \* len(request.emails)
  be_idx,          \* 1-based index of the email the loop is at
  be_now,          \* what datetime.now() reads, in half seconds
  hibp_last,       \* last_request_time of the client analyze_email is using
  be_sent,         \* the times at which provider requests went out, in order
  be_results,      \* len(results)
  be_failed        \* len(failed_items)

bemVars == << be_pc, be_emails, be_idx, be_now, hibp_last, be_sent, be_results,
              be_failed >>

vars == << rlVars, aggVars, bulkVars, pwdVars, errVars, scoreVars, opsVars, sessVars, mgrVars, bemVars >>

notRL == << aggVars, bulkVars, pwdVars, errVars, scoreVars, opsVars, sessVars, mgrVars, bemVars >>

notAgg == << rlVars, bulkVars, pwdVars, errVars, scoreVars, opsVars, sessVars, mgrVars, bemVars >>

notBulk == << rlVars, aggVars, pwdVars, errVars, scoreVars, opsVars, sessVars, mgrVars, bemVars >>

notPwd == << rlVars, aggVars, bulkVars, errVars, scoreVars, opsVars, sessVars, mgrVars, bemVars >>

notErr == << rlVars, aggVars, bulkVars, pwdVars, scoreVars, opsVars, sessVars, mgrVars, bemVars >>

notScore == << rlVars, aggVars, bulkVars, pwdVars, errVars, opsVars, sessVars, mgrVars, bemVars >>

notOps == << rlVars, aggVars, bulkVars, pwdVars, errVars, scoreVars, sessVars, mgrVars, bemVars >>

notSess == << rlVars, aggVars, bulkVars, pwdVars, errVars, scoreVars, opsVars, mgrVars, bemVars >>

notMgr == << rlVars, aggVars, bulkVars, pwdVars, errVars, scoreVars, opsVars, sessVars, bemVars >>

notBem == << rlVars, aggVars, bulkVars, pwdVars, errVars, scoreVars, opsVars, sessVars, mgrVars >>

\* the UTC offset of America/Los_Angeles at a UTC instant (astimezone)
UtcOffset(t) == IF t < DstEnd THEN PacificOffset ELSE PacificOffset + 1

\* now_pacific.date(): the Pacific calendar day of a UTC instant
PacificDate(t) == (t + DayTicks - UtcOffset(t)) \div DayTicks

\* tomorrow_pacific.astimezone(UTC): midnight of the next Pacific day.  The
\* replace() and the timedelta addition keep the tzinfo of now_pacific, so
\* the conversion back to UTC uses the offset in force at t
NextPacificMidnight(t) == PacificDate(t) * DayTicks + UtcOffset(t)

\* the list comprehension that drops calls of earlier Pacific days
PurgeDay(calls, t) ==
  SelectSeq(calls, LAMBDA x : PacificDate(x) = PacificDate(t))

\* the list comprehension that drops calls older than 60 seconds
PurgeMinute(calls, t) ==
  SelectSeq(calls, LAMBDA x : x > t - MinuteTicks)

MinuteLimitReached(calls, cpm) == Len(calls) >= cpm

DayLimitReached(calls, cpd) == Len(calls) >= cpd

\* a variant that waits one tick less, against which the C22 property is
\* tested for sensitivity
MinuteWaitOneShort(calls, t) == SeqMin(calls) + MinuteTicks - 1 - t

\* wait_seconds of the per-minute branch
MinuteWait(calls, t) == SeqMin(calls) + MinuteTicks - t

\* wait_seconds of the daily branch
DayWait(t) == NextPacificMidnight(t) - t

Sleeping(c) == pc[c] \in {"minute_sleep", "day_sleep", "grace_sleep", "vt_sleep"}

\* attempts that have not yet recorded their call
Waiting(c) == pc[c] \in {"minute_sleep", "day_sleep", "vt_sleep"}

vtUnchanged == UNCHANGED << requests_per_minute, requests_per_day,
                            last_request_time, daily_request_count,
                            last_reset_time, raisedCount, notRL >>

googleUnchanged == UNCHANGED << calls_per_day, calls_per_minute,
                                calls_today, calls_last_minute, notRL >>

\* lines 80-86: record the call, then the grace sleep
Record(c, mins, days) ==
  /\ calls_today' = Append(days, now)
  /\ calls_last_minute' = Append(mins, now)
  /\ admitted' = Append(admitted, now)
  /\ pc' = [pc EXCEPT ![c] = "grace_sleep"]
  /\ wake' = [wake EXCEPT ![c] = now]

\* lines 68-83: the daily check, evaluated with the now_utc captured on entry (t0)
DayCheck(c, t0, mins, days) ==
  IF DayLimitReached(days, calls_per_day)
  THEN /\ pc' = [pc EXCEPT ![c] = "day_sleep"]
       /\ wake' = [wake EXCEPT ![c] = now + DayWait(t0)]
       /\ calls_today' = days
       /\ calls_last_minute' = mins
       /\ UNCHANGED admitted
  ELSE Record(c, mins, days)

\* wait_if_needed, from its entry to its first suspension (lines 40-86)
GEnter(c) ==
  /\ provider = "search"
  /\ pc[c] = "idle"
  /\ started < MaxCalls
  /\ now + Headroom <= MaxTime
  /\ started' = started + 1
  /\ overlapped' = (overlapped \/ \E d \in Callers \ {c} : pc[d] # "idle")
  /\ now_utc' = [now_utc EXCEPT ![c] = now]
  /\ LET days == PurgeDay(calls_today, now)
         mins == PurgeMinute(calls_last_minute, now)
     IN IF MinuteLimitReached(mins, calls_per_minute) /\ MinuteWait(mins, now) > 0
        THEN /\ pc' = [pc EXCEPT ![c] = "minute_sleep"]
             /\ wake' = [wake EXCEPT ![c] = now + MinuteWait(mins, now)]
             /\ calls_today' = days
             /\ calls_last_minute' = mins
             /\ UNCHANGED admitted
        ELSE DayCheck(c, now, mins, days)
  /\ UNCHANGED << provider, now, calls_per_day, calls_per_minute >>
  /\ vtUnchanged

\* resumption after the per-minute sleep (lines 64-86): the second purge
\* reuses the now_utc captured before the sleep
GWakeMinute(c) ==
  /\ pc[c] = "minute_sleep"
  /\ now >= wake[c]
  /\ DayCheck(c, now_utc[c], PurgeMinute(calls_last_minute, now_utc[c]), calls_today)
  /\ UNCHANGED << provider, now, calls_per_day, calls_per_minute, now_utc,
                  started, overlapped >>
  /\ vtUnchanged

\* resumption after the daily sleep (lines 77-86): both windows are cleared
GWakeDay(c) ==
  /\ pc[c] = "day_sleep"
  /\ now >= wake[c]
  /\ Record(c, << >>, << >>)
  /\ UNCHANGED << provider, now, calls_per_day, calls_per_minute, now_utc,
                  started, overlapped >>
  /\ vtUnchanged

\* the grace sleep ends and wait_if_needed returns
GReturn(c) ==
  /\ pc[c] = "grace_sleep"
  /\ now >= wake[c]
  /\ pc' = [pc EXCEPT ![c] = "idle"]
  /\ wake' = [wake EXCEPT ![c] = 0]
  /\ now_utc' = [now_utc EXCEPT ![c] = 0]
  /\ UNCHANGED << provider, now, admitted, started, overlapped >>
  /\ googleUnchanged
  /\ vtUnchanged

(***************************************************************************)
(* VirusTotalClient._wait_for_rate_limit (virustotal_client.py 78-106)     *)
(***************************************************************************)
\* current_time - self.last_reset_time > 86400
VtResetDue(t, last_reset) == t - last_reset > DayTicks

\* a variant that refuses one request early, against which the C3 property
\* is tested for sensitivity
VtDailyLimitOneEarly(count, rpd) == count + 1 >= rpd

\* self.daily_request_count >= self.rate_limit.requests_per_day
VtDailyLimitReached(count, rpd) == count >= rpd

\* time_since_last_request < 60.0 / requests_per_minute, without fractions
VtMustWait(since, rpm) == rpm * since < MinuteTicks

\* min_interval - time_since_last_request, rounded up to whole ticks
VtWaitTime(since, rpm) == CeilDiv(MinuteTicks - rpm * since, rpm)

\* lines 104-106
VtRecord(c) ==
  /\ last_request_time' = now
  /\ admitted' = Append(admitted, now)
  /\ pc' = [pc EXCEPT ![c] = "idle"]
  /\ wake' = [wake EXCEPT ![c] = 0]

VEnter(c) ==
  /\ provider = "reputation"
  /\ pc[c] = "idle"
  /\ started < MaxCalls
  /\ now + VtHeadroom <= MaxTime
  /\ started' = started + 1
  /\ overlapped' = (overlapped \/ \E d \in Callers \ {c} : pc[d] # "idle")
  /\ LET reset == VtResetDue(now, last_reset_time)
         daily == IF reset THEN 0 ELSE daily_request_count
         since == now - last_request_time
     IN /\ last_reset_time' = (IF reset THEN now ELSE last_reset_time)
        /\ IF VtDailyLimitReached(daily, requests_per_day)
           THEN \* raise VirusTotalAPIError("Daily API request limit exceeded")
                /\ raisedCount' = raisedCount + 1
                /\ daily_request_count' = daily
                /\ UNCHANGED << last_request_time, admitted, pc, wake >>
           ELSE IF VtMustWait(since, requests_per_minute)
           THEN /\ pc' = [pc EXCEPT ![c] = "vt_sleep"]
                /\ wake' = [wake EXCEPT ![c] = now + VtWaitTime(since, requests_per_minute)]
                /\ daily_request_count' = daily
                /\ UNCHANGED << last_request_time, admitted, raisedCount >>
           ELSE /\ VtRecord(c)
                /\ daily_request_count' = daily + 1
                /\ UNCHANGED raisedCount
  /\ UNCHANGED << provider, now, now_utc, requests_per_minute, requests_per_day >>
  /\ googleUnchanged

\* resumption after asyncio.sleep(wait_time)
VWake(c) ==
  /\ pc[c] = "vt_sleep"
  /\ now >= wake[c]
  /\ VtRecord(c)
  /\ daily_request_count' = daily_request_count + 1
  /\ UNCHANGED << provider, now, now_utc, requests_per_minute, requests_per_day,
                  last_reset_time, raisedCount, started, overlapped >>
  /\ googleUnchanged

\* the clock advances; a coroutine whose sleep has ended is resumed at most
\* MaxLate ticks late
Tick ==
  /\ now < MaxTime
  /\ \A c \in Callers : Sleeping(c) => now < wake[c] + MaxLate
  /\ now' = now + 1
  /\ UNCHANGED << provider, pc, now_utc, wake, admitted, started, overlapped >>
  /\ googleUnchanged
  /\ vtUnchanged

InitRL ==
  /\ provider \in {"search", "reputation"}
  /\ now = StartTime
  /\ calls_per_day \in (IF provider = "search" THEN 1..MaxQuota ELSE {1})
  /\ calls_per_minute \in (IF provider = "search" THEN 1..MaxQuota ELSE {1})
  /\ calls_today = << >>
  /\ calls_last_minute = << >>
  /\ requests_per_minute \in (IF provider = "reputation" THEN 1..MaxQuota ELSE {1})
  /\ requests_per_day \in (IF provider = "reputation" THEN 1..MaxQuota ELSE {1})
  /\ last_request_time = 0
  /\ daily_request_count = 0
  /\ last_reset_time = now
  /\ pc = [c \in Callers |-> "idle"]
  /\ now_utc = [c \in Callers |-> 0]
  /\ wake = [c \in Callers |-> 0]
  /\ admitted = << >>
  /\ raisedCount = 0
  /\ started = 0
  /\ overlapped = FALSE

IdleRL ==
  /\ provider = "search"
  /\ now = StartTime
  /\ calls_per_day = 1
  /\ calls_per_minute = 1
  /\ calls_today = << >>
  /\ calls_last_minute = << >>
  /\ requests_per_minute = 1
  /\ requests_per_day = 1
  /\ last_request_time = 0
  /\ daily_request_count = 0
  /\ last_reset_time = now
  /\ pc = [c \in Callers |-> "idle"]
  /\ now_utc = [c \in Callers |-> 0]
  /\ wake = [c \in Callers |-> 0]
  /\ admitted = << >>
  /\ raisedCount = 0
  /\ started = 0
  /\ overlapped = FALSE

(***************************************************************************)
(* PART 2.  Aggregation                                                    *)
(*   DorkingService.analyze_alias_comprehensive / analyze_domain_...       *)
(*   (services/dorking_service.py, data/dorking_templates.py)              *)
(*   search_alias, search_platform, bulk_alias_search                      *)
(*   (routers/alias_search_router.py)                                      *)
(*                                                                         *)
(* A template is [objective, category, priority]; objective is the        *)
(* template's position in the registry at process start, so objectives     *)
(* are distinct, as they are in the source registries.  google_client.     *)
(* search is the environment: each call ends in one of SearchOutcomes.     *)
(***************************************************************************)
MaxTemplates == 3
MaxTotalResults == 1
MaxUsernames == 3

None == "None"
Priorities == {"high", "medium", "low"}
\* two of the categories of alias_dorking_templates
Categories == {"Redes Sociales", "Desarrollo"}

Template == [objective : 1..MaxTemplates, category : Categories, priority : Priorities]

\* every registry of at most MaxTemplates templates, objectives numbered in order
Registries ==
  UNION { { r \in [1..n -> Template] : \A i \in 1..n : r[i].objective = i } :
          n \in 0..MaxTemplates }

\* what one call of google_client.search can do to the loop body:
\*   "ok"        a result of the shape the API documents (items is a list),
\*               whose totalResults is `total`;
\*   "api_error" GoogleSearchAPIError, which search raises for every error
\*               inside its try block;
\*   "malformed" any other exception raised before the result is counted:
\*               by _wait_for_rate_limit or _get_service, which search calls
\*               outside its try block, or by int() on a totalResults that is
\*               not a number
SearchOutcomes ==
  { [kind |-> "ok", total |-> n] : n \in 0..MaxTotalResults }
    \cup { [kind |-> "api_error", total |-> 0], [kind |-> "malformed", total |-> 0] }

\* items[:3]: the length of the preview of a high-value finding
PreviewItems == 3

\* search_result.get('items', []): the items of one page, numbered in order
ItemsReturned(k) == [i \in 1..k |-> i]

\* the outcomes of a dorking query: totalResults (the provider's estimate)
\* and the items of the page returned are separate fields of the reply; a
\* reply may estimate results and carry no item
DorkOutcomes ==
  UNION { { [kind |-> "ok", total |-> n, items |-> ItemsReturned(k)] :
              k \in (IF n = 0 THEN {0} ELSE {0, 1, PreviewItems + 1}) } :
          n \in 0..MaxTotalResults }
    \cup { [kind |-> "api_error", total |-> 0, items |-> << >>],
           [kind |-> "malformed", total |-> 0, items |-> << >>] }

\* PRIORITY_LEVELS.get(x["priority"], 999)
PRIORITY_LEVELS(p) ==
  CASE p = "high" -> 1
    [] p = "medium" -> 2
    [] p = "low" -> 3
    [] OTHER -> 999

get_templates_by_category(ts, category) ==
  SelectSeq(ts, LAMBDA t : t.category = category)

get_templates_by_priority(ts, priority) ==
  SelectSeq(ts, LAMBDA t : t.priority = priority)

\* a variant that puts x before the elements of its own rank, against which
\* the C9 property is tested for sensitivity
InsertBeforeEqualRank(s, x) ==
  LET k == Cardinality({ i \in 1..Len(s) :
                           PRIORITY_LEVELS(s[i].priority) < PRIORITY_LEVELS(x.priority) })
  IN SubSeq(s, 1, k) \o << x >> \o SubSeq(s, k + 1, Len(s))

\* x goes after every element whose rank is not greater than its own
InsertByRank(s, x) ==
  LET k == Cardinality({ i \in 1..Len(s) :
                           PRIORITY_LEVELS(s[i].priority) <= PRIORITY_LEVELS(x.priority) })
  IN SubSeq(s, 1, k) \o << x >> \o SubSeq(s, k + 1, Len(s))

\* templates.sort(key=lambda x: PRIORITY_LEVELS.get(x["priority"], 999)):
\* list.sort is stable
RECURSIVE SortByPriority(_)
SortByPriority(ts) ==
  IF ts = << >> THEN << >>
  ELSE InsertByRank(SortByPriority(SubSeq(ts, 1, Len(ts) - 1)), ts[Len(ts)])

\* f"{template['category']}_{template['objective']}".replace(' ', '_').lower();
\* distinct templates of a registry have distinct objectives, hence distinct keys
ResultKey(t) == << t.category, t.objective >>

\* the templates an analysis plans (dorking_service.py 53-63 / 188-195)
PlanTemplates(registry, pf, cf) ==
  LET byPriority == IF pf # None THEN get_templates_by_priority(registry, pf)
                    ELSE registry
      byCategory == IF cf # None THEN get_templates_by_category(byPriority, cf)
                    ELSE byPriority
  IN SortByPriority(byCategory)

NewResults(n) ==
  [ total_templates_used |-> n,
    analysis_results |-> << >>,
    total_results_found |-> 0,
    successful_queries |-> 0,
    failed_queries |-> 0,
    high_value_findings |-> << >> ]

\* a variant without the `except Exception` clause, against which the C4
\* property is tested for sensitivity
CaughtApiErrorOnly(o) == o.kind \in {"ok", "api_error"}

\* which outcomes the try block of the alias loop handles (lines 133, 148)
AliasCaught(o) == o.kind \in {"ok", "api_error", "malformed"}

\* which outcomes the try block of the domain loop handles (line 247)
DomainCaught(o) == o.kind \in {"ok", "api_error", "malformed"}

\* items[:3]
Preview(items) ==
  SubSeq(items, 1, IF Len(items) < PreviewItems THEN Len(items) ELSE PreviewItems)

\* the alias loop marks a high-value finding (lines 121-128)
HighValue(res, t, o) ==
  IF o.total > 0 /\ t.priority = "high"
  THEN Append(res.high_value_findings,
              [objective |-> t.objective, category |-> t.category,
               results_count |-> o.total, preview_items |-> Preview(o.items)])
  ELSE res.high_value_findings

\* the domain loop marks a high-value finding (lines 239-244)
DomainHighValue(res, t, o) ==
  IF o.total > 0 /\ t.priority = "high"
  THEN Append(res.high_value_findings,
              [objective |-> t.objective, category |-> t.category,
               results_count |-> o.total])
  ELSE res.high_value_findings

\* one iteration of the alias loop (dorking_service.py 80-160)
AliasQuery(res, t, o) ==
  CASE o.kind = "ok" ->
         [res EXCEPT
            !.analysis_results =
               (ResultKey(t) :> [status |-> "success", total_results |-> o.total,
                                 returned_items |-> Len(o.items),
                                 items |-> o.items]) @@ @,
            !.total_results_found = @ + o.total,
            !.successful_queries = @ + 1,
            !.high_value_findings = HighValue(res, t, o)]
    [] o.kind = "api_error" ->
         [res EXCEPT
            !.analysis_results =
               (ResultKey(t) :> [status |-> "api_error", total_results |-> 0]) @@ @,
            !.failed_queries = @ + 1]
    [] OTHER ->
         [res EXCEPT
            !.analysis_results =
               (ResultKey(t) :> [status |-> "error", total_results |-> 0]) @@ @,
            !.failed_queries = @ + 1]

\* one iteration of the domain loop (dorking_service.py 210-249)
DomainQuery(res, t, o) ==
  CASE o.kind = "ok" ->
         [res EXCEPT
            !.analysis_results =
               (ResultKey(t) :> [status |-> "success", total_results |-> o.total,
                                 returned_items |-> Len(o.items),
                                 items |-> o.items]) @@ @,
            !.total_results_found = @ + o.total,
            !.successful_queries = @ + 1,
            !.high_value_findings = DomainHighValue(res, t, o)]
    [] OTHER ->
         [res EXCEPT !.failed_queries = @ + 1]

aliasSearchUnchanged ==
  UNCHANGED << failingUsers, sa_status, sa_username, filtered_queries,
               platform_results, sa_counts, sa_result, bulk_status, bulk_request,
               bulk_idx, bulk_results, bulk_counts >>

\* analyze_alias_comprehensive up to its loop (lines 48-77); with no filter
\* `templates` is the module-level list itself, which sort() reorders in place
AliasStart(pf, cf) ==
  /\ service = "dorking"
  /\ dk_status = "idle"
  /\ LET planned == PlanTemplates(alias_dorking_templates, pf, cf)
     IN /\ templates' = planned
        /\ alias_dorking_templates' =
             (IF pf = None /\ cf = None THEN planned ELSE alias_dorking_templates)
        /\ results' = NewResults(Len(planned))
  /\ dk_status' = "running"
  /\ dk_kind' = "alias"
  /\ priority_filter' = pf
  /\ category_filter' = cf
  /\ dk_idx' = 1
  /\ dispatched' = << >>
  /\ UNCHANGED << service, domain_dorking_templates, notAgg >>
  /\ aliasSearchUnchanged

\* analyze_domain_comprehensive up to its loop (lines 186-207)
DomainStart(pf) ==
  /\ service = "dorking"
  /\ dk_status = "idle"
  /\ LET planned == PlanTemplates(domain_dorking_templates, pf, None)
     IN /\ templates' = planned
        /\ domain_dorking_templates' =
             (IF pf = None THEN planned ELSE domain_dorking_templates)
        /\ results' = NewResults(Len(planned))
  /\ dk_status' = "running"
  /\ dk_kind' = "domain"
  /\ priority_filter' = pf
  /\ category_filter' = None
  /\ dk_idx' = 1
  /\ dispatched' = << >>
  /\ UNCHANGED << service, alias_dorking_templates, notAgg >>
  /\ aliasSearchUnchanged

\* one template is formatted, searched and its outcome folded into results
DorkQuery(o) ==
  /\ dk_status = "running"
  /\ dk_idx <= Len(templates)
  /\ LET t == templates[dk_idx]
         caught == IF dk_kind = "alias" THEN AliasCaught(o) ELSE DomainCaught(o)
     IN /\ dispatched' = Append(dispatched, t)
        /\ IF caught
           THEN /\ results' = (IF dk_kind = "alias" THEN AliasQuery(results, t, o)
                               ELSE DomainQuery(results, t, o))
                /\ dk_idx' = dk_idx + 1
                /\ UNCHANGED dk_status
           ELSE /\ dk_status' = "raised"
                /\ UNCHANGED << results, dk_idx >>
  /\ UNCHANGED << service, alias_dorking_templates, domain_dorking_templates,
                  dk_kind, priority_filter, category_filter, templates, notAgg >>
  /\ aliasSearchUnchanged

\* the loop is exhausted: return results
DorkReturn ==
  /\ dk_status = "running"
  /\ dk_idx > Len(templates)
  /\ dk_status' = "done"
  /\ UNCHANGED << service, alias_dorking_templates, domain_dorking_templates,
                  dk_kind, priority_filter, category_filter, templates, dk_idx,
                  results, dispatched, notAgg >>
  /\ aliasSearchUnchanged

\* the request is over; the service waits for the next one
DorkReset ==
  /\ dk_status \in {"done", "raised"}
  /\ dk_status' = "idle"
  /\ dk_kind' = None
  /\ priority_filter' = None
  /\ category_filter' = None
  /\ templates' = << >>
  /\ dk_idx' = 0
  /\ results' = NewResults(0)
  /\ dispatched' = << >>
  /\ UNCHANGED << service, alias_dorking_templates, domain_dorking_templates, notAgg >>
  /\ aliasSearchUnchanged

(***************************************************************************)
(* Alias search (routers/alias_search_router.py).  A username is a number  *)
(* 1..MaxUsernames.  PlatformOrder holds one high-, one medium- and one    *)
(* low-priority entry of the dict get_platform_queries builds, in dict     *)
(* order.                                                                  *)
(***************************************************************************)
PlatformOrder == << "twitter_x", "youtube", "wordpress" >>

Platforms == SeqToSet(PlatformOrder)

PlatformPriority(p) ==
  CASE p = "twitter_x" -> "high"
    [] p = "youtube" -> "medium"
    [] OTHER -> "low"

SearchPriority == {"high", "medium", "low", "all"}

AllowedPrioritiesMediumKeepsLow(priority) ==
  CASE priority = "high" -> {"high"}
    [] OTHER -> {"high", "medium", "low"}

\* priority_map.get(priority, ["high"])
AllowedPriorities(priority) ==
  CASE priority = "high" -> {"high"}
    [] priority = "medium" -> {"high", "medium"}
    [] priority = "low" -> {"high", "medium", "low"}
    [] OTHER -> {"high"}

filter_by_priority(queries, priority) ==
  IF priority = "all" THEN queries
  ELSE SelectSeq(queries, LAMBDA q : PlatformPriority(q) \in AllowedPriorities(priority))

\* search_alias lines 326-338: the priority filter, then the optional platform list
FilteredQueries(priority, platforms) ==
  LET byPriority == filter_by_priority(PlatformOrder, priority)
  IN IF platforms # {} THEN SelectSeq(byPriority, LAMBDA q : q \in platforms)
     ELSE byPriority

\* search_platform: the PlatformResult built from the provider's outcome
search_platform(o) ==
  CASE o.kind = "ok" -> [total_results |-> o.total, error |-> None]
    [] o.kind = "api_error" -> [total_results |-> 0, error |-> "API Error"]
    [] OTHER -> [total_results |-> 0, error |-> "Search Error"]

PlatformsWithResults(pr) ==
  { q \in DOMAIN pr : pr[q].total_results > 0 /\ pr[q].error = None }

\* generate_recommendations: one tag per sentence appended
generate_recommendations(pr) ==
  LET found == PlatformsWithResults(pr)
      general == IF Cardinality(found) = 0
                 THEN << "no direct results", "manual verification" >>
                 ELSE IF Cardinality(found) >= 5
                 THEN << "high presence", "cross-reference", "check creation dates" >>
                 ELSE << "moderate presence", "expand search" >>
      twitter == IF "twitter_x" \in found THEN << "twitter profile found" >> ELSE << >>
  IN general \o twitter \o << "always verify identity" >>

NewCounts == [idx |-> 1, successful_searches |-> 0, failed_searches |-> 0, total_results |-> 0]

\* search_alias lines 349-357: the counters after one platform's result
CountPlatform(counts, r) ==
  IF r.error # None
  THEN [counts EXCEPT !.idx = @ + 1, !.failed_searches = @ + 1]
  ELSE [counts EXCEPT !.idx = @ + 1, !.successful_searches = @ + 1,
                      !.total_results = @ + r.total_results]

\* AliasSearchResult built at lines 372-389
AliasSearchResult(u, queries, counts, pr) ==
  [ summary |-> [ username |-> u,
                  total_platforms_searched |-> Len(queries),
                  successful_searches |-> counts.successful_searches,
                  failed_searches |-> counts.failed_searches,
                  total_results_found |-> counts.total_results,
                  platforms_with_results |-> PlatformsWithResults(pr) ],
    recommendations |-> generate_recommendations(pr) ]

\* the placeholder bulk_alias_search stores when search_alias raised (461-473)
FailedSearchResult(u) ==
  [ summary |-> [ username |-> u,
                  total_platforms_searched |-> 0,
                  successful_searches |-> 0,
                  failed_searches |-> 1,
                  total_results_found |-> 0,
                  platforms_with_results |-> {} ],
    recommendations |-> << "Search failed" >> ]

NoResult == [ summary |-> None, recommendations |-> << >> ]

BulkRequests ==
  [ usernames : { [i \in 1..n |-> i] : n \in 1..MaxUsernames },
    platforms : {{}} \cup { {q} : q \in Platforms },
    priority : SearchPriority ]

NoRequest == [ usernames |-> << >>, platforms |-> {}, priority |-> None ]

dorkingUnchanged ==
  UNCHANGED << alias_dorking_templates, domain_dorking_templates, dk_status,
               dk_kind, priority_filter, category_filter, templates, dk_idx,
               results, dispatched >>

\* search_alias from its entry to the search loop (lines 313-347)
SearchAliasBegins(u, platforms, priority) ==
  /\ sa_status = "idle"
  /\ sa_username' = u
  /\ LET queries == FilteredQueries(priority, platforms)
     IN IF queries = << >>
        THEN \* HTTPException(400, "No platforms selected for search")
             /\ sa_status' = "http400"
             /\ UNCHANGED << filtered_queries, platform_results, sa_counts >>
        ELSE /\ sa_status' = "searching"
             /\ filtered_queries' = queries
             /\ platform_results' = << >>
             /\ sa_counts' = NewCounts
  /\ UNCHANGED sa_result

\* the /alias-search/search endpoint is called directly
SaEndpoint(u, platforms, priority) ==
  /\ service = "alias_search"
  /\ bulk_status = "idle"
  /\ SearchAliasBegins(u, platforms, priority)
  /\ UNCHANGED << service, failingUsers, bulk_status, bulk_request, bulk_idx,
                  bulk_results, bulk_counts, notAgg >>
  /\ dorkingUnchanged

\* one iteration of the platform loop: search_platform, then the counters
SaSearch(o) ==
  /\ sa_status = "searching"
  /\ sa_counts.idx <= Len(filtered_queries)
  /\ sa_username \in failingUsers => o.kind = "api_error"
  /\ LET q == filtered_queries[sa_counts.idx]
         r == search_platform(o)
     IN /\ platform_results' = (q :> r) @@ platform_results
        /\ sa_counts' = CountPlatform(sa_counts, r)
  /\ UNCHANGED << service, failingUsers, sa_status, sa_username, filtered_queries,
                  sa_result, bulk_status, bulk_request, bulk_idx, bulk_results,
                  bulk_counts, notAgg >>
  /\ dorkingUnchanged

\* the loop is exhausted: build the summary and return
SaReturn ==
  /\ sa_status = "searching"
  /\ sa_counts.idx > Len(filtered_queries)
  /\ sa_result' = AliasSearchResult(sa_username, filtered_queries, sa_counts,
                                    platform_results)
  /\ sa_status' = "returned"
  /\ UNCHANGED << service, failingUsers, sa_username, filtered_queries,
                  platform_results, sa_counts, bulk_status, bulk_request, bulk_idx,
                  bulk_results, bulk_counts, notAgg >>
  /\ dorkingUnchanged

saCleared ==
  /\ sa_status' = "idle"
  /\ sa_username' = 0
  /\ filtered_queries' = << >>
  /\ platform_results' = << >>
  /\ sa_counts' = NewCounts
  /\ sa_result' = NoResult

\* a direct call is over (response sent, or the 400 propagated)
SaEndpointDone ==
  /\ bulk_status = "idle"
  /\ sa_status \in {"returned", "http400"}
  /\ saCleared
  /\ UNCHANGED << service, failingUsers, bulk_status, bulk_request, bulk_idx,
                  bulk_results, bulk_counts, notAgg >>
  /\ dorkingUnchanged

\* bulk_alias_search is called (lines 429-435)
BulkStart(req) ==
  /\ service = "alias_search"
  /\ bulk_status = "idle"
  /\ sa_status = "idle"
  /\ bulk_status' = "running"
  /\ bulk_request' = req
  /\ bulk_idx' = 1
  /\ bulk_results' = << >>
  /\ bulk_counts' = [successful_searches |-> 0, failed_searches |-> 0]
  /\ UNCHANGED << service, failingUsers, sa_status, sa_username, filtered_queries,
                  platform_results, sa_counts, sa_result, notAgg >>
  /\ dorkingUnchanged

\* the loop body calls search_alias for the next username (lines 437-448)
BulkCall ==
  /\ bulk_status = "running"
  /\ bulk_idx <= Len(bulk_request.usernames)
  /\ SearchAliasBegins(bulk_request.usernames[bulk_idx], bulk_request.platforms,
                       bulk_request.priority)
  /\ UNCHANGED << service, failingUsers, bulk_status, bulk_request, bulk_idx,
                  bulk_results, bulk_counts, notAgg >>
  /\ dorkingUnchanged

\* search_alias returned (lines 450-455)
BulkCollect ==
  /\ bulk_status = "running"
  /\ sa_status = "returned"
  /\ bulk_results' = (sa_username :> sa_result) @@ bulk_results
  /\ bulk_counts' = [bulk_counts EXCEPT !.successful_searches = @ + 1]
  /\ bulk_idx' = bulk_idx + 1
  /\ saCleared
  /\ UNCHANGED << service, failingUsers, bulk_status, bulk_request, notAgg >>
  /\ dorkingUnchanged

\* search_alias raised (lines 457-473)
BulkCatch ==
  /\ bulk_status = "running"
  /\ sa_status = "http400"
  /\ bulk_results' = (sa_username :> FailedSearchResult(sa_username)) @@ bulk_results
  /\ bulk_counts' = [bulk_counts EXCEPT !.failed_searches = @ + 1]
  /\ bulk_idx' = bulk_idx + 1
  /\ saCleared
  /\ UNCHANGED << service, failingUsers, bulk_status, bulk_request, notAgg >>
  /\ dorkingUnchanged

\* every username was processed: the global summary is returned (475-490)
BulkReturn ==
  /\ bulk_status = "running"
  /\ sa_status = "idle"
  /\ bulk_idx > Len(bulk_request.usernames)
  /\ bulk_status' = "returned"
  /\ UNCHANGED << service, failingUsers, sa_status, sa_username, filtered_queries,
                  platform_results, sa_counts, sa_result, bulk_request, bulk_idx,
                  bulk_results, bulk_counts, notAgg >>
  /\ dorkingUnchanged

BulkReset ==
  /\ bulk_status = "returned"
  /\ bulk_status' = "idle"
  /\ bulk_request' = NoRequest
  /\ bulk_idx' = 0
  /\ bulk_results' = << >>
  /\ bulk_counts' = [successful_searches |-> 0, failed_searches |-> 0]
  /\ UNCHANGED << service, failingUsers, sa_status, sa_username, filtered_queries,
                  platform_results, sa_counts, sa_result, notAgg >>
  /\ dorkingUnchanged

\* global_summary of the bulk response
GlobalSummary ==
  [ total_usernames_processed |-> Len(bulk_request.usernames),
    successful_username_searches |-> bulk_counts.successful_searches,
    failed_username_searches |-> bulk_counts.failed_searches ]

dorkIdle ==
  /\ dk_status = "idle"
  /\ dk_kind = None
  /\ priority_filter = None
  /\ category_filter = None
  /\ templates = << >>
  /\ dk_idx = 0
  /\ results = NewResults(0)
  /\ dispatched = << >>

aliasSearchIdle ==
  /\ sa_status = "idle"
  /\ sa_username = 0
  /\ filtered_queries = << >>
  /\ platform_results = << >>
  /\ sa_counts = NewCounts
  /\ sa_result = NoResult
  /\ bulk_status = "idle"
  /\ bulk_request = NoRequest
  /\ bulk_idx = 0
  /\ bulk_results = << >>
  /\ bulk_counts = [successful_searches |-> 0, failed_searches |-> 0]

\* the dorking service starts with any registry; alias search does not read
\* the registries (they are left empty there)
InitAgg ==
  /\ service \in {"dorking", "alias_search"}
  /\ alias_dorking_templates \in (IF service = "dorking" THEN Registries ELSE {<< >>})
  /\ domain_dorking_templates = alias_dorking_templates
  /\ failingUsers \in (IF service = "alias_search"
                       THEN {{}} \cup { {u} : u \in 1..MaxUsernames }
                       ELSE {{}})
  /\ dorkIdle
  /\ aliasSearchIdle

IdleAgg ==
  /\ service = "dorking"
  /\ alias_dorking_templates = << >>
  /\ domain_dorking_templates = << >>
  /\ failingUsers = {}
  /\ dorkIdle
  /\ aliasSearchIdle

NextAgg ==
  \/ \E pf \in Priorities \cup {None}, cf \in Categories \cup {None} : AliasStart(pf, cf)
  \/ \E pf \in Priorities \cup {None} : DomainStart(pf)
  \/ \E o \in DorkOutcomes : DorkQuery(o)
  \/ DorkReturn
  \/ DorkReset
  \/ \E u \in 1..MaxUsernames, ps \in {{}} \cup { {q} : q \in Platforms },
        pr \in SearchPriority : SaEndpoint(u, ps, pr)
  \/ \E o \in SearchOutcomes : SaSearch(o)
  \/ SaReturn
  \/ SaEndpointDone
  \/ \E req \in BulkRequests : BulkStart(req)
  \/ BulkCall
  \/ BulkCollect
  \/ BulkCatch
  \/ BulkReturn
  \/ BulkReset

(***************************************************************************)
(* PART 3.  Bulk analysis                                                  *)
(*   POST /analyze/bulk (main.py) and AnalysisManager.analyze_bulk_targets *)
(*   / analyze_target (analysis_manager.py).  A request is a number        *)
(*   1..n; the script run by analyze_target is the environment and ends    *)
(*   in success or in an error.  BulkLimit stands for the endpoint's       *)
(*   limit of 100 targets.                                                 *)
(***************************************************************************)
BulkLimit == 3
MaxConcurrent == 2
MaxAnalyses == 4

NewStats == [total_requests |-> 0, successful_analyses |-> 0, failed_analyses |-> 0]

InFlight == Cardinality({ i \in 1..Len(tasks) : tasks[i] = "running" })

\* the endpoint up to `await asyncio.gather(*tasks, ...)` (main.py 172-185,
\* analysis_manager.py 285-292); max_concurrent is an unvalidated int, and
\* asyncio.Semaphore raises ValueError for a negative value
BkRequest(n, mc) ==
  /\ bk_status = "idle"
  /\ stats.total_requests + n <= MaxAnalyses
  /\ max_concurrent' = mc
  /\ IF n > BulkLimit
     THEN /\ bk_status' = "http400"
          /\ UNCHANGED << semaphore, tasks, responses >>
     ELSE IF mc < 0
     THEN /\ bk_status' = "http500"
          /\ UNCHANGED << semaphore, tasks, responses >>
     ELSE /\ bk_status' = "gathering"
          /\ semaphore' = mc
          /\ tasks' = [i \in 1..n |-> "waiting"]
          /\ responses' = [i \in 1..n |-> None]
  /\ UNCHANGED << stats, notBulk >>

\* `async with semaphore` is entered and analyze_target starts (line 134)
BkAcquire(i) ==
  /\ bk_status = "gathering"
  /\ i \in 1..Len(tasks)
  /\ tasks[i] = "waiting"
  /\ semaphore > 0
  /\ semaphore' = semaphore - 1
  /\ tasks' = [tasks EXCEPT ![i] = "running"]
  /\ stats' = [stats EXCEPT !.total_requests = @ + 1]
  /\ UNCHANGED << bk_status, max_concurrent, responses, notBulk >>

\* how the script run of one analysis ends: it prints a JSON object, it
\* prints JSON that is not an object (a list, a string, a number), or it
\* fails (missing script, non-zero return code, timeout, invalid JSON)
AnalysisEndings == {"object", "not_object", "failed"}

\* analyze_target lines 149-171.  successful_analyses is incremented before
\* the AnalysisResponse is built; data that is not a dict makes the model
\* raise a validation error inside the try block, and the except clause
\* increments failed_analyses and answers with status ERROR
CountAnalysis(st, ending) ==
  CASE ending = "object" -> [st EXCEPT !.successful_analyses = @ + 1]
    [] ending = "not_object" ->
         [st EXCEPT !.successful_analyses = @ + 1, !.failed_analyses = @ + 1]
    [] OTHER -> [st EXCEPT !.failed_analyses = @ + 1]

\* analyze_target returns its AnalysisResponse and the semaphore is released
BkFinish(i, ending) ==
  /\ bk_status = "gathering"
  /\ i \in 1..Len(tasks)
  /\ tasks[i] = "running"
  /\ tasks' = [tasks EXCEPT ![i] = "done"]
  /\ responses' = [responses EXCEPT
                     ![i] = IF ending = "object" THEN "success" ELSE "error"]
  /\ stats' = CountAnalysis(stats, ending)
  /\ semaphore' = semaphore + 1
  /\ UNCHANGED << bk_status, max_concurrent, notBulk >>

\* gather has every result: the list of responses is returned
BkRespond ==
  /\ bk_status = "gathering"
  /\ \A i \in 1..Len(tasks) : tasks[i] = "done"
  /\ bk_status' = "responded"
  /\ UNCHANGED << max_concurrent, semaphore, tasks, responses, stats, notBulk >>

\* the HTTP exchange is over
BkReset ==
  /\ bk_status \in {"responded", "http400", "http500"}
  /\ bk_status' = "idle"
  /\ max_concurrent' = 0
  /\ semaphore' = 0
  /\ tasks' = << >>
  /\ responses' = << >>
  /\ UNCHANGED << stats, notBulk >>

InitBulk ==
  /\ bk_status = "idle"
  /\ max_concurrent = 0
  /\ semaphore = 0
  /\ tasks = << >>
  /\ responses = << >>
  /\ stats = NewStats

IdleBulk == InitBulk

NextBulk ==
  \/ \E n \in 0..(BulkLimit + 1), mc \in (-1)..MaxConcurrent : BkRequest(n, mc)
  \/ \E i \in 1..BulkLimit : BkAcquire(i)
  \/ \E i \in 1..BulkLimit, ending \in AnalysisEndings : BkFinish(i, ending)
  \/ BkRespond
  \/ BkReset

(***************************************************************************)
(* PART 4.  Pwned-password check                                           *)
(*   POST /pwnedpassword (routers/haveibeenpwned_router.py 375-411),       *)
(*   HaveIBeenPwnedClient.check_pwned_password and _make_request           *)
(*   (clients/haveibeenpwned_client.py 263-314, 109-160).                  *)
(*                                                                         *)
(* Strings are TLA+ strings.  sha1 is tabulated for the candidate          *)
(* passwords with their real digests; "pks" and "qrs" share the first      *)
(* five hex characters.  No candidate occurs in the fixed text of a        *)
(* message, so a candidate found inside a message came from the input.     *)
(* The provider is the environment: it sees the request only.              *)
(***************************************************************************)
Passwords == {"pks", "qrs", "zz", "hunter2"}

\* hashlib.sha1(password.encode('utf-8')).hexdigest().upper()
sha1(p) ==
  CASE p = "pks" -> "BA207D55739040F6DF3BE1F0B20B526636AD22A3"
    [] p = "qrs" -> "BA207AA3E80B2E33BEBDE565C93CE75769D5C8B3"
    [] p = "zz" -> "D7DACAE2C968388960BF8970080A980ED5C5DCB7"
    [] p = "hunter2" -> "F3BBBD66A63D4BF1747940578EC3D0103530E21D"

\* a variant that keeps six characters, against which the C10 property is
\* tested for sensitivity
SixCharPrefix(h) == SubSeq(h, 1, 6)

\* password_hash[:5]
hash_prefix(h) == SubSeq(h, 1, 5)

\* a variant that keeps one character too many, against which the C11
\* property is tested for sensitivity
SuffixFromFifth(h) == SubSeq(h, 5, Len(h))

\* password_hash[5:]
hash_suffix(h) == SubSeq(h, 6, Len(h))

pwned_passwords_url == "https://api.pwnedpasswords.com"

\* url and params of check_pwned_password (lines 279-283)
RangeRequest(p, pad) ==
  [ url |-> pwned_passwords_url \o "/range/" \o hash_prefix(sha1(p)),
    params |-> IF pad THEN { << "Add-Padding", "true" >> } ELSE {} ]

NoRequestSent == [ url |-> "", params |-> {} ]

\* the occurrence count the provider reports for a breached password
PwnCount == 3

\* what the provider can answer from the request alone: the entries
\* (suffix, count) of any breached passwords whose digest starts with the
\* characters after "/range/" in the url, with a low or a high count
RangeLines(url) ==
  LET asked == SubSeq(url, Len(pwned_passwords_url) + 8, Len(url))
  IN { [suffix |-> SubSeq(sha1(q), Len(asked) + 1, Len(sha1(q))), count |-> n] :
         q \in { r \in Passwords : SubSeq(sha1(r), 1, Len(asked)) = asked },
         n \in {PwnCount, 100 * PwnCount} }

MaxLines == 2

\* a suffix that belongs to no candidate password
FillerSuffix == "00000000000000000000000000000000000"

\* the entries the provider adds when the request carries Add-Padding=true:
\* arbitrary suffixes, each with a count of 0
PaddingLines(request) ==
  LET asked == SubSeq(request.url, Len(pwned_passwords_url) + 8, Len(request.url))
  IN IF << "Add-Padding", "true" >> \in request.params
     THEN { [suffix |-> sfx, count |-> 0] :
              sfx \in {FillerSuffix} \cup
                      { SubSeq(sha1(q), Len(asked) + 1, Len(sha1(q))) :
                          q \in { r \in Passwords : SubSeq(sha1(r), 1, Len(asked)) = asked } } }
     ELSE {}

\* the range responses of at most MaxLines entries, no suffix listed twice
RangeResponses(request) ==
  UNION { { r \in [1..n -> RangeLines(request.url) \cup PaddingLines(request)] :
              \A i, j \in 1..n : i # j => r[i].suffix # r[j].suffix } :
          n \in 0..MaxLines }

\* response_data.strip().split('\n') of the body the provider sends for these
\* entries: "SUFFIX:COUNT" lines separated by CR LF, so that every line but
\* the last keeps its carriage return
ResponseLines(entries) ==
  [ i \in 1..Len(entries) |->
      entries[i].suffix \o ":" \o ToString(entries[i].count)
        \o (IF i < Len(entries) THEN "\r" ELSE "") ]

ColonPositions(line) == { i \in 1..Len(line) : SubSeq(line, i, i) = ":" }

Whitespace == {" ", "\t", "\r", "\n"}

\* str.strip() as int() applies it to its argument
RECURSIVE Strip(_)
Strip(str) ==
  IF Len(str) > 0 /\ SubSeq(str, 1, 1) \in Whitespace
  THEN Strip(SubSeq(str, 2, Len(str)))
  ELSE IF Len(str) > 0 /\ SubSeq(str, Len(str), Len(str)) \in Whitespace
  THEN Strip(SubSeq(str, 1, Len(str) - 1))
  ELSE str

DigitValue(ch) ==
  CASE ch = "0" -> 0 [] ch = "1" -> 1 [] ch = "2" -> 2 [] ch = "3" -> 3
    [] ch = "4" -> 4 [] ch = "5" -> 5 [] ch = "6" -> 6 [] ch = "7" -> 7
    [] ch = "8" -> 8 [] ch = "9" -> 9

RECURSIVE DecimalValue(_)
DecimalValue(digits) ==
  IF Len(digits) = 0 THEN 0
  ELSE 10 * DecimalValue(SubSeq(digits, 1, Len(digits) - 1))
         + DigitValue(SubSeq(digits, Len(digits), Len(digits)))

\* int(count)
ParseInt(str) == DecimalValue(Strip(str))

\* suffix, count = line.split(':') for a line with one colon
SplitLine(line) ==
  LET k == CHOOSE i \in ColonPositions(line) : TRUE
  IN [suffix |-> SubSeq(line, 1, k - 1), count |-> SubSeq(line, k + 1, Len(line))]

\* the HTTP status of the answer, or "network" when session.get raises
\* aiohttp.ClientError
ProviderStatus == {"200", "404", "429", "500", "network"}

\* PwnedPasswordResponse.determine_risk_level
determine_risk_level(pwn_count) ==
  IF pwn_count = 0 THEN "safe"
  ELSE IF pwn_count < 10 THEN "low"
  ELSE IF pwn_count < 100 THEN "medium"
  ELSE IF pwn_count < 1000 THEN "high"
  ELSE "critical"

\* the loop over the response lines (lines 292-307): the first line whose
\* suffix is the wanted one decides
PwnedPasswordModel(lines, suffix) ==
  LET hits == { i \in 1..Len(lines) :
                  /\ ColonPositions(lines[i]) # {}
                  /\ SplitLine(lines[i]).suffix = suffix }
  IN IF hits # {}
     THEN [ hash_suffix |-> suffix,
            count |-> ParseInt(SplitLine(lines[CHOOSE i \in hits : \A j \in hits : i <= j]).count),
            is_pwned |-> TRUE ]
     ELSE [hash_suffix |-> suffix, count |-> 0, is_pwned |-> FALSE]

\* str(e) of the exception _make_request / check_pwned_password raises
ErrorMessage(status) ==
  CASE status = "404" -> "Unexpected response format from Pwned Passwords API"
    [] status = "429" -> "Rate limit exceeded. Retry after 60 seconds."
    [] status = "network" ->
         "Network error: Cannot connect to host api.pwnedpasswords.com:443"
    [] OTHER -> "API request failed with status " \o status \o ": error"

\* the router logs, the client builds the request and awaits session.get
PwCheck(p, pad) ==
  /\ pw_status = "idle"
  /\ pw_status' = "requesting"
  /\ password' = p
  /\ add_padding' = pad
  /\ log_lines' = << "Checking pwned password (password not logged for security)" >>
  /\ request_sent' = RangeRequest(p, pad)
  /\ outbound' = outbound \cup
                   { [password |-> p, add_padding |-> pad, request |-> RangeRequest(p, pad)] }
  /\ UNCHANGED << http_response, response_data, notPwd >>

\* the provider answers; the client parses, the router answers its caller
PwRespond(status, entries) ==
  /\ pw_status = "requesting"
  /\ entries \in RangeResponses(request_sent)
  /\ status # "200" => entries = << >>
  /\ response_data' = ResponseLines(entries)
  /\ LET lines == ResponseLines(entries)
         requestLog == "HaveIBeenPwned API request: " \o request_sent.url
                          \o " - Status: " \o status
         result == PwnedPasswordModel(lines, hash_suffix(sha1(password)))
         failure == "Failed to check pwned password: " \o ErrorMessage(status)
     IN IF status = "200"
        THEN /\ pw_status' = "responded"
             /\ http_response' =
                  [ is_pwned |-> result.is_pwned,
                    pwn_count |-> result.count,
                    hash_suffix |-> result.hash_suffix,
                    risk_level |-> determine_risk_level(result.count) ]
             /\ log_lines' = log_lines \o
                  << requestLog,
                     "Password check completed - Pwned: "
                        \o (IF result.is_pwned THEN "True" ELSE "False")
                        \o ", Count: " \o ToString(result.count) >>
        ELSE /\ pw_status' = "failed"
             /\ http_response' =
                  [ status_code |-> IF status = "429" THEN "429" ELSE "500",
                    detail |-> IF status = "429" THEN ErrorMessage(status)
                               ELSE "Failed to check password: " \o ErrorMessage(status) ]
             /\ log_lines' = log_lines
                  \o (IF status = "network" THEN << >> ELSE << requestLog >>)
                  \o << failure, failure >>
  /\ UNCHANGED << password, add_padding, request_sent, outbound, notPwd >>

\* the HTTP exchange is over
PwDone ==
  /\ pw_status \in {"responded", "failed"}
  /\ pw_status' = "idle"
  /\ password' = ""
  /\ add_padding' = FALSE
  /\ request_sent' = NoRequestSent
  /\ log_lines' = << >>
  /\ http_response' = None
  /\ response_data' = << >>
  /\ UNCHANGED << outbound, notPwd >>

InitPwd ==
  /\ pw_status = "idle"
  /\ password = ""
  /\ add_padding = FALSE
  /\ request_sent = NoRequestSent
  /\ log_lines = << >>
  /\ http_response = None
  /\ response_data = << >>
  /\ outbound = {}

IdlePwd == InitPwd

NextPwd ==
  \/ \E p \in Passwords, pad \in BOOLEAN : PwCheck(p, pad)
  \/ \E status \in ProviderStatus :
        \E entries \in RangeResponses(request_sent) : PwRespond(status, entries)
  \/ PwDone

(***************************************************************************)
(* PART 5.  Provider errors and planning errors at the endpoints           *)
(*   HaveIBeenPwnedClient._make_request and the three breach lookups with  *)
(*   their router endpoints; VirusTotalClient._make_request; POST          *)
(*   /dorking/analyze.  A JSON object is a record that has exactly the     *)
(*   keys the object has, and an Optional attribute that is None is an     *)
(*   attribute the record lacks.  Of the seventeen attributes of a breach  *)
(*   five are kept; the others are declared like Title.                    *)
(***************************************************************************)
MaxItems == 2

HttpStatuses == {200, 204, 401, 403, 404, 429, 500, 503}

\* the elements a provider's breach list can hold: a complete breach, the
\* truncated form (Name only) and an object without a Name
BreachItems ==
  { [Name |-> "Adobe", Title |-> "Adobe", BreachDate |-> 2013,
     DataClasses |-> << "Passwords" >>, IsVerified |-> TRUE],
    [Name |-> "Zynga", Title |-> "Zynga", BreachDate |-> 2019,
     DataClasses |-> << "Passwords" >>, IsVerified |-> FALSE],
    [Name |-> "Adobe"],
    [Title |-> "Adobe", BreachDate |-> 2013,
     DataClasses |-> << "Passwords" >>, IsVerified |-> TRUE] }

\* the elements of a breached-domain list
DomainItems ==
  { [email |-> "alice", breaches |-> << "Adobe" >>], [breaches |-> << "Adobe" >>] }

ItemLists(items) == UNION { [1..n -> items] : n \in 0..MaxItems }

\* BreachModel(**breach_data): Name is required, every other field Optional
BreachModel(item) ==
  LET alias == [name |-> "Name", title |-> "Title", breach_date |-> "BreachDate",
                data_classes |-> "DataClasses", is_verified |-> "IsVerified"]
  IN [f \in { g \in DOMAIN alias : alias[g] \in DOMAIN item } |-> item[alias[f]]]

\* a variant in which only a 200 response returns and a 404 is raised like
\* every other status, against which the C13 property is tested for
\* sensitivity
RaiseUnlessOk(reply) ==
  IF ~reply.fault /\ reply.status = 200 THEN [raised |-> FALSE, data |-> reply.items]
  ELSE [raised |-> TRUE,
        error |-> [message |-> "API request failed with status "
                                 \o ToString(reply.status) \o ": " \o reply.message]]

\* HaveIBeenPwnedClient._make_request from the response on
HibpMakeRequest(reply) ==
  CASE reply.fault ->
         [raised |-> TRUE,
          error |-> [message |-> "Network error: Cannot connect to host"]]
    [] ~reply.fault /\ reply.status = 200 -> [raised |-> FALSE, data |-> reply.items]
    [] ~reply.fault /\ reply.status = 404 -> [raised |-> FALSE, data |-> << >>]
    [] ~reply.fault /\ reply.status = 429 ->
         [raised |-> TRUE,
          error |-> [message |-> "Rate limit exceeded. Retry after 60 seconds."]]
    [] ~reply.fault /\ reply.status = 401 ->
         [raised |-> TRUE, error |-> [message |-> "Unauthorized - Invalid API key"]]
    [] ~reply.fault /\ reply.status = 403 ->
         [raised |-> TRUE,
          error |-> [message |-> "Forbidden - Missing or invalid User-Agent header"]]
    [] OTHER ->
         [raised |-> TRUE,
          error |-> [message |-> "API request failed with status "
                                   \o ToString(reply.status) \o ": " \o reply.message]]

\* check_breached_account / check_breached_domain / get_all_breaches after
\* _make_request: an element that does not validate is logged and skipped
BreachLookupResult(kind, made) ==
  IF made.raised THEN made
  ELSE LET valid(item) == IF kind = "domain"
                          THEN {"email", "breaches"} \subseteq DOMAIN item
                          ELSE "Name" \in DOMAIN item
           kept == SelectSeq(made.data, valid)
       IN [raised |-> FALSE,
           records |-> [i \in 1..Len(kept) |->
                          IF kind = "domain" THEN kept[i] ELSE BreachModel(kept[i])]]

\* the `except Exception` clause of the three endpoints
HibpHttpException(kind, message) ==
  LET prefix == CASE kind = "account" -> "Failed to check account: "
                  [] kind = "domain" -> "Failed to check domain: "
                  [] OTHER -> "Failed to retrieve breaches: "
  IN IF Contains(message, "Rate limit") THEN [status_code |-> 429, detail |-> message]
     ELSE IF Contains(message, "Unauthorized")
          THEN [status_code |-> 401, detail |-> message]
          ELSE [status_code |-> 500, detail |-> prefix \o message]

\* BreachedAccountResponse.determine_risk_assessment
determine_risk_assessment(breach_count, verified_count) ==
  IF breach_count = 0 THEN "safe"
  ELSE IF verified_count = 0 THEN "low"
  ELSE IF breach_count < 3 THEN "medium"
  ELSE IF breach_count < 5 THEN "high"
  ELSE "critical"

\* the body of the three endpoints after the client call: BreachResponse
\* declares every field required, so a breach with a field that is None
\* raises a validation error inside the try block
HibpEndpoint(kind, looked) ==
  IF looked.raised THEN HibpHttpException(kind, looked.error.message)
  ELSE IF kind = "domain" THEN [status_code |-> 200, body |-> looked.records]
  ELSE
    LET breaches == looked.records
        n == Len(breaches)
        required == {"name", "title", "breach_date", "data_classes", "is_verified"}
        complete == \A i \in 1..n : required \subseteq DOMAIN breaches[i]
        verified == Cardinality({ i \in 1..n : breaches[i].is_verified })
        dates == { breaches[i].breach_date : i \in 1..n }
    IN IF ~complete
       THEN HibpHttpException(kind, "1 validation error for BreachResponse")
       ELSE IF kind = "breaches" THEN [status_code |-> 200, body |-> breaches]
       ELSE [status_code |-> 200,
             body |-> [is_breached |-> n > 0,
                       breach_count |-> n,
                       breaches |-> breaches,
                       data_classes_affected |->
                          UNION { SeqToSet(breaches[i].data_classes) : i \in 1..n },
                       most_recent_breach |->
                          IF n = 0 THEN None
                          ELSE ToString(CHOOSE d \in dates : \A e \in dates : e <= d),
                       verified_breaches_count |-> verified,
                       unverified_breaches_count |-> n - verified,
                       risk_assessment |-> determine_risk_assessment(n, verified)]]

\* VirusTotalClient._make_request from the response on; response.json() is
\* awaited before the status is looked at, and a body that is not JSON makes
\* it raise ContentTypeError, an aiohttp.ClientError
VtMakeRequest(reply) ==
  CASE reply.fault \/ reply.body = "not_json" ->
         [raised |-> TRUE,
          error |-> [message |-> "Network error: " \o
                       (IF reply.fault THEN "Cannot connect to host"
                        ELSE "Attempt to decode JSON with unexpected mimetype")]]
    [] ~reply.fault /\ reply.body # "not_json" /\ reply.status = 200 ->
         [raised |-> FALSE, data |-> reply.body]
    [] ~reply.fault /\ reply.body # "not_json" /\ reply.status = 204 ->
         [raised |-> FALSE, data |-> "empty"]
    [] ~reply.fault /\ reply.body # "not_json" /\ reply.status = 429 ->
         [raised |-> TRUE,
          error |-> [message |-> "API rate limit exceeded", status_code |-> 429,
                     error_code |-> "RATE_LIMIT_EXCEEDED"]]
    [] ~reply.fault /\ reply.body # "not_json" /\ reply.status = 401 ->
         [raised |-> TRUE,
          error |-> [message |-> "Invalid API key", status_code |-> 401,
                     error_code |-> "INVALID_API_KEY"]]
    [] ~reply.fault /\ reply.body # "not_json" /\ reply.status = 404 ->
         [raised |-> TRUE,
          error |-> [message |-> "Resource not found", status_code |-> 404,
                     error_code |-> "NOT_FOUND"]]
    [] OTHER ->
         [raised |-> TRUE,
          error |-> [message |-> IF reply.body = "json_error" THEN reply.message
                                 ELSE "HTTP " \o ToString(reply.status),
                     status_code |-> reply.status]]

\* the text the provider puts in the body of an error response
ProviderMessage(status) ==
  CASE status = 429 -> "Quota exceeded"
    [] status = 401 -> "Wrong API key"
    [] status = 403 -> "Access denied"
    [] status \in {500, 503} -> "Service unavailable"
    [] OTHER -> ""

NoReply == [fault |-> FALSE, status |-> 0, message |-> "", items |-> << >>, body |-> ""]

NoOutcome == [raised |-> FALSE]

NoResponse == [status_code |-> 0]

NoCall == [endpoint |-> None]

\* a breach endpoint is called: the router opens the client, the lookup
\* checks the API key and sends its GET
BreachLookup(kind, has_key) ==
  /\ ep_status = "idle"
  /\ ep_request' = [endpoint |-> kind, api_key |-> has_key]
  /\ IF kind \in {"account", "domain"} /\ ~has_key
     THEN LET message == IF kind = "account"
                         THEN "API key required for breach checking"
                         ELSE "API key required for domain breach checking"
          IN /\ client_outcome' = [raised |-> TRUE, error |-> [message |-> message]]
             /\ ep_response' = HibpHttpException(kind, message)
             /\ ep_status' = "answered"
             /\ queries_issued' = 0
     ELSE /\ ep_status' = "awaiting"
          /\ queries_issued' = 1
          /\ UNCHANGED << client_outcome, ep_response >>
  /\ UNCHANGED << provider_reply, notErr >>

\* the provider answers; the client and the endpoint run to their end
BreachReply(fault, status, items) ==
  /\ ep_status = "awaiting"
  /\ ep_request.endpoint \in {"account", "domain", "breaches"}
  /\ items \in ItemLists(IF ep_request.endpoint = "domain" THEN DomainItems
                         ELSE BreachItems)
  /\ (fault \/ status # 200) => items = << >>
  /\ LET reply == [fault |-> fault, status |-> status,
                   message |-> ProviderMessage(status), items |-> items, body |-> "json"]
         looked == BreachLookupResult(ep_request.endpoint, HibpMakeRequest(reply))
     IN /\ provider_reply' = reply
        /\ client_outcome' = looked
        /\ ep_response' = HibpEndpoint(ep_request.endpoint, looked)
  /\ ep_status' = "answered"
  /\ UNCHANGED << ep_request, queries_issued, notErr >>

\* a request of the reputation client is sent
ReputationRequest ==
  /\ ep_status = "idle"
  /\ ep_request' = [endpoint |-> "reputation"]
  /\ ep_status' = "awaiting"
  /\ queries_issued' = 1
  /\ UNCHANGED << provider_reply, client_outcome, ep_response, notErr >>

\* the reputation provider answers and _make_request returns or raises
ReputationReply(fault, status, body) ==
  /\ ep_status = "awaiting"
  /\ ep_request.endpoint = "reputation"
  /\ LET reply == [fault |-> fault, status |-> status,
                   message |-> ProviderMessage(status), items |-> << >>, body |-> body]
     IN /\ provider_reply' = reply
        /\ client_outcome' = VtMakeRequest(reply)
  /\ ep_status' = "answered"
  /\ UNCHANGED << ep_request, ep_response, queries_issued, notErr >>

\* str() of the HTTPException raised inside analyze_target's try block:
\* "<status>: <detail>" where the class defines __str__, empty where it
\* does not
HTTPExceptionStr(status_code, detail) ==
  { ToString(status_code) \o ": " \o detail, "" }

\* POST /dorking/analyze: the target type is dispatched, the service plans
\* and runs one query per planned template (each outcome is handled inside
\* the loops of Part 2, so the service returns), and `except Exception`
\* turns whatever was raised in the try block into a 500
analyze_target(registry, target_type, pf, cf) ==
  /\ ep_status = "idle"
  /\ ep_request' = [endpoint |-> "analyze", target_type |-> target_type,
                    priority_filter |-> pf, category_filter |-> cf]
  /\ IF target_type \in {"alias", "domain"}
     THEN LET planned == PlanTemplates(registry, pf,
                                       IF target_type = "alias" THEN cf ELSE None)
          IN /\ queries_issued' = Len(planned)
             /\ ep_response' = [status_code |-> 200,
                                body |-> [target_type |-> target_type,
                                          total_templates_used |-> Len(planned)]]
     ELSE /\ queries_issued' = 0
          /\ \E text \in HTTPExceptionStr(400,
                  "Unsupported target type: " \o target_type
                     \o ". Supported types: alias, domain") :
                ep_response' = [status_code |-> 500,
                                detail |-> "Analysis failed: " \o text]
  /\ ep_status' = "answered"
  /\ UNCHANGED << provider_reply, client_outcome, notErr >>

\* the call is over
EndpointDone ==
  /\ ep_status = "answered"
  /\ ep_status' = "idle"
  /\ ep_request' = NoCall
  /\ provider_reply' = NoReply
  /\ client_outcome' = NoOutcome
  /\ ep_response' = NoResponse
  /\ queries_issued' = 0
  /\ UNCHANGED notErr

InitErr ==
  /\ ep_status = "idle"
  /\ ep_request = NoCall
  /\ provider_reply = NoReply
  /\ client_outcome = NoOutcome
  /\ ep_response = NoResponse
  /\ queries_issued = 0

IdleErr == InitErr

\* the target types and category filters a caller can send
TargetTypes == {"alias", "domain", "email"}
CategoryFilters == Categories \cup {None, "Desconocida"}

NextErr ==
  \/ \E kind \in {"account", "domain", "breaches"}, has_key \in BOOLEAN :
        BreachLookup(kind, has_key)
  \/ \E fault \in BOOLEAN, status \in HttpStatuses :
        \E items \in ItemLists(BreachItems) \cup ItemLists(DomainItems) :
           BreachReply(fault, status, items)
  \/ ReputationRequest
  \/ \E fault \in BOOLEAN, status \in HttpStatuses,
        body \in {"json", "json_error", "not_json"} :
           ReputationReply(fault, status, body)
  \/ \E registry \in Registries, target_type \in TargetTypes,
        pf \in Priorities \cup {None}, cf \in CategoryFilters :
           analyze_target(registry, target_type, pf, cf)
  \/ EndpointDone

(***************************************************************************)
(* PART 6.  Threat scoring                                                 *)
(*   calculate_threat_score of scripts/ip_analysis.py, domain_analysis.py  *)
(*   and url_analysis.py.  A results dict is a record that has exactly the *)
(*   keys the dict has.  A time is a number of ticks, TicksPerDay to the    *)
(*   day; creation_date is the reading of the whois date with its UTC      *)
(*   offset dropped and `clock` is what datetime.now() reads.  A detection *)
(*   ratio is a number of tenths of a percent.                             *)
(***************************************************************************)
TicksPerDay == 2
MaxAdvance == 2
MaxScoreCalls == 2

\* results.get(key, {})
Get(d, key) == IF key \in DOMAIN d THEN d[key] ELSE << >>

\* score = 0; factors = []
NoPoints == [score |-> 0, factors |-> << >>]

\* a variant that puts the new factor in front, against which the C20
\* property is tested for sensitivity
AddFactorInFront(acc, points, factor) ==
  [score |-> acc.score + points, factors |-> << factor >> \o acc.factors]

\* score += points; factors.append(factor)
AddFactor(acc, points, factor) ==
  [score |-> acc.score + points, factors |-> Append(acc.factors, factor)]

\* a variant whose lower tier earns nothing, against which the C21 property
\* is tested for sensitivity
MaliciousPointsLowerTierNothing(malicious, high, low) ==
  IF malicious > 5 THEN high ELSE 0

\* a variant whose upper tier earns less than its lower tier, against which
\* the C17 property is tested for sensitivity
MaliciousPointsUpperTierLess(malicious, high, low) ==
  IF malicious > 5 THEN low - 5 ELSE IF malicious > 0 THEN low ELSE 0

\* the points of the two tiers of `malicious`
MaliciousPoints(malicious, high, low) ==
  IF malicious > 5 THEN high ELSE IF malicious > 0 THEN low ELSE 0

\* the block "VirusTotal detections"; the three scripts differ in the points
VirusTotalDetections(acc, threat_intel, high, low, susp) ==
  IF {"malicious", "suspicious"} \subseteq DOMAIN threat_intel
  THEN LET malicious == threat_intel.malicious
           suspicious == threat_intel.suspicious
           points == MaliciousPoints(malicious, high, low)
           a == IF malicious > 0
                THEN AddFactor(acc, points, ToString(malicious) \o " malicious detections")
                ELSE acc
       IN IF suspicious > 3
          THEN AddFactor(a, susp, ToString(suspicious) \o " suspicious detections")
          ELSE a
  ELSE acc

\* a variant that gives 50 points to a high ratio, against which the C16
\* property is tested for sensitivity
UrlVoidHighRatioFifty(acc, holder) ==
  IF "detection_ratio" \in DOMAIN holder /\ holder.detection_ratio > 300
  THEN AddFactor(acc, 50, "High URLVoid detection ratio")
  ELSE acc

\* the block "URLVoid detections"; f'{ratio:.1f}' of a number of tenths
UrlVoidDetections(acc, holder) ==
  IF "detection_ratio" \in DOMAIN holder
  THEN LET ratio == holder.detection_ratio
           text == ToString(ratio \div 10) \o "." \o ToString(ratio % 10) \o "%"
       IN IF ratio > 300
          THEN AddFactor(acc, 25, "High URLVoid detection ratio: " \o text)
          ELSE IF ratio > 100
               THEN AddFactor(acc, 10, "Medium URLVoid detection ratio: " \o text)
               ELSE acc
  ELSE acc

\* a variant whose upper band starts above 60, against which the C19
\* property is tested for sensitivity
ThreatLevelAboveSixty(score) ==
  IF score > 60 THEN "high"
  ELSE IF score >= 30 THEN "medium"
  ELSE IF score > 0 THEN "low"
  ELSE "clean"

\* the block "Determine threat level"
ThreatLevel(score) ==
  IF score >= 60 THEN "high"
  ELSE IF score >= 30 THEN "medium"
  ELSE IF score > 0 THEN "low"
  ELSE "clean"

\* (datetime.now() - creation.replace(tzinfo=None)).days: timedelta.days is
\* the floor of the difference in days
DaysOld(now_read, creation) == (now_read - creation) \div TicksPerDay

\* ip_analysis.calculate_threat_score
calculate_threat_score_ip(report) ==
  LET reputation == Get(report, "reputation")
      a == IF "abuse_confidence" \in DOMAIN reputation
           THEN IF reputation.abuse_confidence > 75
                THEN AddFactor(NoPoints, 40, "High AbuseIPDB confidence")
                ELSE IF reputation.abuse_confidence > 25
                     THEN AddFactor(NoPoints, 20, "Medium AbuseIPDB confidence")
                     ELSE NoPoints
           ELSE NoPoints
      b == VirusTotalDetections(a, Get(report, "threat_intelligence"), 30, 15, 10)
  IN [score |-> b.score, level |-> ThreatLevel(b.score), factors |-> b.factors]

\* domain_analysis.calculate_threat_score, called when the clock reads now_read
calculate_threat_score_domain(report, now_read) ==
  LET a == VirusTotalDetections(NoPoints, Get(report, "threat_intelligence"), 40, 20, 15)
      b == UrlVoidDetections(a, Get(Get(report, "reputation"), "urlvoid"))
      whois_info == Get(report, "whois_info")
      c == IF "creation_date" \in DOMAIN whois_info
           THEN LET days_old == DaysOld(now_read, whois_info.creation_date)
                IN IF days_old < 30
                   THEN AddFactor(b, 15, "Very recent domain (" \o ToString(days_old)
                                           \o " days old)")
                   ELSE IF days_old < 90
                        THEN AddFactor(b, 5, "Recent domain (" \o ToString(days_old)
                                               \o " days old)")
                        ELSE b
           ELSE b
  IN [score |-> c.score, level |-> ThreatLevel(c.score), factors |-> c.factors]

\* url_analysis.calculate_threat_score
calculate_threat_score_url(report) ==
  LET a == VirusTotalDetections(NoPoints, Get(report, "threat_intelligence"), 40, 20, 15)
      b == UrlVoidDetections(a, Get(report, "reputation"))
      redirects == Get(report, "redirects")
      c == IF "redirect_count" \in DOMAIN redirects /\ redirects.redirect_count > 3
           THEN AddFactor(b, 10, "Multiple redirects ("
                                   \o ToString(redirects.redirect_count) \o ")")
           ELSE b
      content == Get(report, "content_analysis")
      d == IF "status_code" \in DOMAIN content /\ content.status_code # 200
           THEN AddFactor(c, 5, "Non-200 status code: " \o ToString(content.status_code))
           ELSE c
  IN [score |-> d.score, level |-> ThreatLevel(d.score), factors |-> d.factors]

\* the call made by analyze_ip / analyze_domain / analyze_url
calculate_threat_score(kind, report, now_read) ==
  CASE kind = "ip" -> calculate_threat_score_ip(report)
    [] kind = "domain" -> calculate_threat_score_domain(report, now_read)
    [] OTHER -> calculate_threat_score_url(report)

\* a key that is absent, or present with one of the values
Optional(key, values) == { << >> } \cup { key :> v : v \in values }

\* threat_intelligence as get_threat_intelligence builds it: both counts, or
\* an error entry without them
ThreatIntelligence ==
  Optional("threat_intelligence",
           [malicious : {0, 1, 5, 6}, suspicious : {0, 3, 4}])

Ratios == [detection_ratio : {100, 101, 300, 301}]

\* the results dicts of the three scripts, as far as the scoring reads them
Payloads(kind) ==
  CASE kind = "ip" ->
         { ti @@ rep : ti \in ThreatIntelligence,
                       rep \in Optional("reputation",
                                        [abuse_confidence : {25, 26, 75, 76}]) }
    [] kind = "domain" ->
         { ti @@ rep @@ who :
             ti \in ThreatIntelligence,
             rep \in Optional("reputation", { "urlvoid" :> r : r \in Ratios }),
             who \in Optional("whois_info", { << >>, [creation_date |-> 0] }) }
    [] OTHER ->
         { ti @@ rep @@ red @@ con :
             ti \in ThreatIntelligence,
             rep \in Optional("reputation", Ratios),
             red \in Optional("redirects", [redirect_count : {3, 4}]),
             con \in Optional("content_analysis", [status_code : {200, 404}]) }

\* the ages, in ticks, at which the first call can find a domain created at 0
StartAges == {0 - 1, 0, 30 * TicksPerDay - 1, 90 * TicksPerDay - 1}

NoScore == [score |-> 0, level |-> "clean", factors |-> << >>]

\* results['threat_score'] = calculate_threat_score(report)
Score ==
  /\ target_kind # None
  /\ score_calls < MaxScoreCalls
  /\ LET threat_score == calculate_threat_score(target_kind, payload, clock)
     IN /\ last_score' = threat_score
        /\ first_score' = (IF score_calls = 0 THEN threat_score ELSE first_score)
  /\ score_calls' = score_calls + 1
  /\ scored_at' = clock
  /\ UNCHANGED << target_kind, payload, clock, advanced, notScore >>

\* time passes between two calls
TimePasses ==
  /\ target_kind # None
  /\ advanced < MaxAdvance
  /\ clock' = clock + 1
  /\ advanced' = advanced + 1
  /\ UNCHANGED << target_kind, payload, score_calls, scored_at, first_score, last_score,
                  notScore >>

InitScore ==
  /\ target_kind \in {"ip", "domain", "url"}
  /\ payload \in Payloads(target_kind)
  /\ clock \in StartAges
  /\ advanced = 0
  /\ score_calls = 0
  /\ scored_at = 0
  /\ first_score = NoScore
  /\ last_score = NoScore

IdleScore ==
  /\ target_kind = None
  /\ payload = << >>
  /\ clock = 0
  /\ advanced = 0
  /\ score_calls = 0
  /\ scored_at = 0
  /\ first_score = NoScore
  /\ last_score = NoScore

NextScore ==
  \/ Score
  \/ TimePasses

(***************************************************************************)
(* PART 7.  Operations of one GoogleSearchClient                           *)
(*   (clients/google_search_client.py 147-378)                             *)
(* The limiter's wait_if_needed always ends by recording the call (lines   *)
(* 80-83); here it is the step that counts one recorded call.              *)
(***************************************************************************)
MaxOps == 3

ClientOperations == {"search", "site_search", "image_search", "get_search_info"}

\* _wait_for_rate_limit: wait_if_needed appends the call to both windows
Admit == gs_recorded' = gs_recorded + 1

\* a client operation is called.  search (line 199) and get_search_info
\* (line 358) start with _wait_for_rate_limit; image_search and site_search
\* only delegate to search
GsCall(op) ==
  /\ gs_pc = "idle"
  /\ gs_ops < MaxOps
  /\ gs_ops' = gs_ops + 1
  /\ gs_op' = op
  /\ gs_outcome' = None
  /\ Admit
  /\ gs_pc' = IF op = "get_search_info" THEN "info_admitted" ELSE "admitted"
  /\ UNCHANGED << gs_service, gs_requests, gs_unsent, notOps >>

\* get_search_info line 362: self.search("test", num_results=1), which
\* starts with its own _wait_for_rate_limit (line 199)
GsInfoSearch ==
  /\ gs_pc = "info_admitted"
  /\ Admit
  /\ gs_pc' = "admitted"
  /\ UNCHANGED << gs_op, gs_service, gs_requests, gs_unsent, gs_ops, gs_outcome,
                  notOps >>

\* search lines 200-285: _get_service (build may raise when the service is
\* not built yet), then the request in the executor, which returns the
\* result or raises GoogleSearchAPIError
GsRequest(built, answered) ==
  /\ gs_pc = "admitted"
  /\ gs_pc' = "idle"
  /\ IF gs_service = None /\ ~built
     THEN /\ gs_outcome' = "error"
          /\ gs_unsent' = gs_unsent + 1
          /\ UNCHANGED << gs_service, gs_requests >>
     ELSE /\ gs_service' = "built"
          /\ gs_requests' = gs_requests + 1
          /\ gs_outcome' = IF answered THEN "result" ELSE "error"
          /\ UNCHANGED gs_unsent
  /\ UNCHANGED << gs_op, gs_recorded, gs_ops, notOps >>

InitOps ==
  /\ gs_op = None
  /\ gs_pc = "idle"
  /\ gs_service = None
  /\ gs_recorded = 0
  /\ gs_requests = 0
  /\ gs_unsent = 0
  /\ gs_ops = 0
  /\ gs_outcome = None

IdleOps == InitOps

NextOps ==
  \/ \E op \in ClientOperations : GsCall(op)
  \/ GsInfoSearch
  \/ \E built, answered \in BOOLEAN : GsRequest(built, answered)

(***************************************************************************)
(* PART 8.  HTTP sessions of the provider clients                          *)
(*   VirusTotalClient      (clients/virustotal_client.py 39-119)           *)
(*   HaveIBeenPwnedClient  (clients/haveibeenpwned_client.py 68-126)       *)
(* A session is identified by the order of its creation.                   *)
(***************************************************************************)
MaxSessionSteps == 5

\* self.session = None: sessions are numbered from 1
NoSession == 0

\* aiohttp.ClientSession(...): a new open session becomes self.session
NewSession ==
  /\ cl_created' = cl_created + 1
  /\ cl_session' = cl_created + 1
  /\ cl_open' = cl_open \cup {cl_created + 1}

\* VirusTotalClient._create_session: only when self.session is not set
VtCreateSession ==
  IF cl_session = NoSession THEN NewSession
  ELSE UNCHANGED << cl_session, cl_open, cl_created >>

\* __aenter__.  VirusTotalClient calls _create_session; HaveIBeenPwnedClient
\* assigns a new ClientSession whatever self.session holds
SessEnter ==
  /\ cl_steps < MaxSessionSteps
  /\ cl_steps' = cl_steps + 1
  /\ cl_last' = "enter"
  /\ IF cl_kind = "virustotal" THEN VtCreateSession ELSE NewSession
  /\ UNCHANGED << cl_kind, cl_sent, notSess >>

\* _make_request.  VirusTotalClient: _wait_for_rate_limit (which may raise
\* on the daily limit), then _create_session, then the request on
\* self.session.  HaveIBeenPwnedClient: raises when self.session is not set;
\* a request on a closed session is refused by aiohttp
SessRequest(limited) ==
  /\ cl_steps < MaxSessionSteps
  /\ cl_steps' = cl_steps + 1
  /\ cl_last' = "request"
  /\ IF cl_kind = "virustotal"
     THEN IF limited
          THEN /\ cl_sent' = "raised"
               /\ UNCHANGED << cl_session, cl_open, cl_created >>
          ELSE /\ VtCreateSession
               /\ cl_sent' = "sent"
     ELSE /\ cl_sent' = IF cl_session # NoSession /\ cl_session \in cl_open
                        THEN "sent" ELSE "raised"
          /\ UNCHANGED << cl_session, cl_open, cl_created >>
  /\ UNCHANGED << cl_kind, notSess >>

\* __aexit__ (and VirusTotalClient._close_session): the session is closed;
\* only VirusTotalClient sets self.session back to None
SessExit ==
  /\ cl_steps < MaxSessionSteps
  /\ cl_steps' = cl_steps + 1
  /\ cl_last' = "exit"
  /\ IF cl_session # NoSession
     THEN /\ cl_open' = cl_open \ {cl_session}
          /\ cl_session' = IF cl_kind = "virustotal" THEN NoSession ELSE cl_session
     ELSE UNCHANGED << cl_session, cl_open >>
  /\ UNCHANGED << cl_kind, cl_created, cl_sent, notSess >>

IdleSess ==
  /\ cl_kind = "virustotal"
  /\ cl_session = NoSession
  /\ cl_open = {}
  /\ cl_created = 0
  /\ cl_last = None
  /\ cl_sent = None
  /\ cl_steps = 0

InitSess ==
  /\ cl_kind \in {"virustotal", "hibp"}
  /\ cl_session = NoSession
  /\ cl_open = {}
  /\ cl_created = 0
  /\ cl_last = None
  /\ cl_sent = None
  /\ cl_steps = 0

NextSess ==
  \/ SessEnter
  \/ \E limited \in BOOLEAN : SessRequest(limited)
  \/ SessExit

(***************************************************************************)
(* PART 9.  Asynchronous analyses and shutdown                             *)
(*   AnalysisManager (analysis_manager.py 43-50, 161-284)                  *)
(* Task ids are 1..MaxTasks in the order start_async_analysis hands them   *)
(* out.  A task_info dict is a record holding exactly its keys.            *)
(***************************************************************************)
MaxTasks == 3
MaxGets == 3

TaskIds == 1..MaxTasks

NoTasks == << >>

\* lines 232-237: the task entry start_async_analysis creates
NewTaskInfo(t) ==
  [status |-> "pending", request |-> t, start_time |-> 0, result |-> None]

\* start_async_analysis: the entry is stored and the task is scheduled
StartAsyncAnalysis ==
  /\ manager = "serving"
  /\ next_task < MaxTasks
  /\ next_task' = next_task + 1
  /\ active_tasks' = ((next_task + 1) :> NewTaskInfo(next_task + 1)) @@ active_tasks
  /\ coroutine' = [coroutine EXCEPT ![next_task + 1] = "scheduled"]
  /\ UNCHANGED << manager, process, get_calls, got, delivered, notMgr >>

\* _run_async_analysis up to the subprocess started by analyze_target
\* (lines 244-250, 193-198); the lookup raises KeyError when the entry is gone
RunAsyncAnalysis(t) ==
  /\ coroutine[t] = "scheduled"
  /\ IF t \in DOMAIN active_tasks
     THEN /\ active_tasks' = [active_tasks EXCEPT ![t].status = "processing"]
          /\ coroutine' = [coroutine EXCEPT ![t] = "running"]
          /\ process' = [process EXCEPT ![t] = "running"]
     ELSE /\ coroutine' = [coroutine EXCEPT ![t] = "key_error"]
          /\ UNCHANGED << active_tasks, process >>
  /\ UNCHANGED << manager, next_task, get_calls, got, delivered, notMgr >>

\* how a script run can end: with a JSON object, with a non-zero return
\* code, or killed at the timeout (_execute_script, lines 200-223)
ScriptEndings == {"success", "failed", "timeout"}

\* the AnalysisResponse analyze_target returns (lines 152-171): it catches
\* every Exception of the script run and answers with status ERROR
AnalysisResponse(how) ==
  IF how = "success" THEN [status |-> "success", error |-> None]
  ELSE [status |-> "error", error |-> how]

StoredStatusAlwaysSuccess(result) == "success"

\* task_info['status'] = result.status (line 251)
StoredStatus(result) == result.status

\* the script ends or times out and _run_async_analysis stores the result
\* and its status in the task_info dict it holds (lines 249-251), which is
\* the entry of active_tasks as long as the entry exists
ScriptEnds(t, how) ==
  /\ coroutine[t] = "running"
  /\ process[t] = "running"
  /\ process' = [process EXCEPT ![t] = IF how = "timeout" THEN "terminated" ELSE "exited"]
  /\ coroutine' = [coroutine EXCEPT ![t] = "finished"]
  /\ active_tasks' =
        IF t \in DOMAIN active_tasks
        THEN [active_tasks EXCEPT
                ![t].result = AnalysisResponse(how),
                ![t].status = StoredStatus(AnalysisResponse(how))]
        ELSE active_tasks
  /\ UNCHANGED << manager, next_task, get_calls, got, delivered, notMgr >>

\* AnalysisResponse.task_id = None
NoTaskId == 0

NoGet == [asked |-> NoTaskId, kind |-> "none", status |-> None, task_id |-> NoTaskId]

KeepTask(entries, t) == entries

\* del self.active_tasks[task_id] (line 272)
DeleteTask(entries, t) == [u \in DOMAIN entries \ {t} |-> entries[u]]

\* get_analysis_result (lines 263-281), which has no suspension point: an
\* unknown id returns None (the endpoint answers 404), a finished task is
\* returned and removed, an unfinished one is reported with its task_id
GetAnalysisResult(t) ==
  /\ manager = "serving"
  /\ get_calls < MaxGets
  /\ get_calls' = get_calls + 1
  /\ IF t \notin DOMAIN active_tasks
     THEN /\ got' = [asked |-> t, kind |-> "none", status |-> None,
                     task_id |-> NoTaskId]
          /\ UNCHANGED << active_tasks, delivered >>
     ELSE IF active_tasks[t].status \in {"success", "error"}
     THEN /\ got' = [asked |-> t, kind |-> "final",
                     status |-> active_tasks[t].result.status,
                     task_id |-> NoTaskId]
          /\ active_tasks' = DeleteTask(active_tasks, t)
          /\ delivered' = [delivered EXCEPT ![t] = @ + 1]
     ELSE /\ got' = [asked |-> t, kind |-> "progress",
                     status |-> active_tasks[t].status, task_id |-> t]
          /\ UNCHANGED << active_tasks, delivered >>
  /\ UNCHANGED << manager, coroutine, process, next_task, notMgr >>

\* cleanup, called by the shutdown event (main.py 72-76): a subprocess is
\* terminated when its task_info has a 'process' key and it is still running
cleanup ==
  /\ manager = "serving"
  /\ manager' = "stopped"
  /\ process' = [t \in TaskIds |->
                   IF /\ t \in DOMAIN active_tasks
                      /\ "process" \in DOMAIN active_tasks[t]
                      /\ process[t] = "running"
                   THEN "terminated" ELSE process[t]]
  /\ active_tasks' = NoTasks
  /\ UNCHANGED << coroutine, next_task, get_calls, got, delivered, notMgr >>

InitMgr ==
  /\ manager = "serving"
  /\ active_tasks = NoTasks
  /\ coroutine = [t \in TaskIds |-> "none"]
  /\ process = [t \in TaskIds |-> "none"]
  /\ next_task = 0
  /\ get_calls = 0
  /\ got = NoGet
  /\ delivered = [t \in TaskIds |-> 0]

IdleMgr == InitMgr

NextMgr ==
  \/ StartAsyncAnalysis
  \/ \E t \in TaskIds : RunAsyncAnalysis(t)
  \/ \E t \in TaskIds, how \in ScriptEndings : ScriptEnds(t, how)
  \/ \E t \in TaskIds : GetAnalysisResult(t)
  \/ cleanup

(***************************************************************************)
(* PART 10.  The bulk email check of the breach router and the request     *)
(* spacing of HaveIBeenPwnedClient.  Time is counted in half seconds.      *)
(***************************************************************************)

MaxEmails == 3
MaxBulkClock == 5

\* min_request_interval = 1.5 seconds, in half seconds.
min_request_interval == 3

\* last_request_time = None; the clock never reads 0.
NoRequestYet == 0

\* _rate_limit: how long the client sleeps before a request made at time `at`.
RateLimitWait(last, at) ==
  IF last # NoRequestYet /\ at - last < min_request_interval
    THEN min_request_interval - (at - last)
    ELSE 0

\* What one lookup can end in: a list of breaches, a 404 (no breaches), or an
\* error status that analyze_email turns into an HTTPException.
LookupReplies == {"breaches", "not_found", "error"}

\* bulk_email_check starts: the lists are empty and the loop is at the first
\* email.  The client it opens itself is never used for a request.
BulkEmailCheck(n) ==
  /\ be_pc = "idle"
  /\ be_pc' = "loop"
  /\ be_emails' = n
  /\ be_idx' = 1
  /\ be_sent' = << >>
  /\ be_results' = 0
  /\ be_failed' = 0
  /\ UNCHANGED << be_now, hibp_last, notBem >>

\* analyze_email for the email at be_idx: it opens a HaveIBeenPwnedClient of
\* its own, whose last_request_time is None.
AnalyzeEmail ==
  /\ be_pc = "loop"
  /\ be_idx <= be_emails
  /\ be_pc' = "client"
  /\ hibp_last' = NoRequestYet
  /\ UNCHANGED << be_emails, be_idx, be_now, be_sent, be_results, be_failed, notBem >>

\* check_breached_account -> _make_request: _rate_limit sleeps for
\* RateLimitWait, records the time and the request goes out.  The sleep is
\* over at once when the wait is 0.
HibpRequest ==
  /\ be_pc = "client"
  /\ RateLimitWait(hibp_last, be_now) = 0
  /\ hibp_last' = be_now
  /\ be_sent' = Append(be_sent, be_now)
  /\ be_pc' = "awaiting"
  /\ UNCHANGED << be_emails, be_idx, be_now, be_results, be_failed, notBem >>

\* The provider answers; analyze_email returns or raises, its client is
\* closed, and the loop appends to results or to failed_items.
HibpReply(reply) ==
  /\ be_pc = "awaiting"
  /\ be_results' = IF reply = "error" THEN be_results ELSE be_results + 1
  /\ be_failed' = IF reply = "error" THEN be_failed + 1 ELSE be_failed
  /\ be_idx' = be_idx + 1
  /\ be_pc' = "loop"
  /\ UNCHANGED << be_emails, be_now, hibp_last, be_sent, notBem >>

\* The loop is over: the BulkAnalysisResponse is built.
BulkEmailDone ==
  /\ be_pc = "loop"
  /\ be_idx > be_emails
  /\ be_pc' = "done"
  /\ UNCHANGED << be_emails, be_idx, be_now, hibp_last, be_sent, be_results, be_failed, notBem >>

\* Half a second passes.
BulkTick ==
  /\ be_pc \in {"loop", "client", "awaiting"}
  /\ be_now < MaxBulkClock
  /\ be_now' = be_now + 1
  /\ UNCHANGED << be_pc, be_emails, be_idx, hibp_last, be_sent, be_results, be_failed, notBem >>

InitBem ==
  /\ be_pc = "idle"
  /\ be_emails = 0
  /\ be_idx = 1
  /\ be_now = 1
  /\ hibp_last = NoRequestYet
  /\ be_sent = << >>
  /\ be_results = 0
  /\ be_failed = 0

IdleBem == InitBem

NextBem ==
  \/ \E n \in 1..MaxEmails : BulkEmailCheck(n)
  \/ AnalyzeEmail
  \/ HibpRequest
  \/ \E reply \in LookupReplies : HibpReply(reply)
  \/ BulkEmailDone
  \/ BulkTick

(* SPECIFICATIONS *)
NextRL ==
  \/ \E c \in Callers : GEnter(c)
  \/ \E c \in Callers : GWakeMinute(c)
  \/ \E c \in Callers : GWakeDay(c)
  \/ \E c \in Callers : GReturn(c)
  \/ \E c \in Callers : VEnter(c)
  \/ \E c \in Callers : VWake(c)
  \/ Tick

RLStart == InitRL /\ IdleAgg /\ IdleBulk /\ IdlePwd /\ IdleErr /\ IdleScore /\ IdleOps /\ IdleSess /\ IdleMgr /\ IdleBem

SpecRL == RLStart /\ [][NextRL]_vars

\* asyncio resumes every coroutine whose sleep has ended, and time passes
FairRL ==
  /\ WF_vars(Tick)
  /\ \A c \in Callers :
       /\ WF_vars(GWakeMinute(c))
       /\ WF_vars(GWakeDay(c))
       /\ WF_vars(GReturn(c))
       /\ WF_vars(VWake(c))

FairSpecRL == SpecRL /\ FairRL

AggStart == InitAgg /\ IdleRL /\ IdleBulk /\ IdlePwd /\ IdleErr /\ IdleScore /\ IdleOps /\ IdleSess /\ IdleMgr /\ IdleBem

SpecAgg == AggStart /\ [][NextAgg]_vars

BkStart == InitBulk /\ IdleRL /\ IdleAgg /\ IdlePwd /\ IdleErr /\ IdleScore /\ IdleOps /\ IdleSess /\ IdleMgr /\ IdleBem

SpecBulk == BkStart /\ [][NextBulk]_vars

\* the event loop runs every task that can run, and every script ends
FairBulk ==
  /\ \A i \in 1..BulkLimit : WF_vars(BkAcquire(i))
  /\ \A i \in 1..BulkLimit : WF_vars(\E ending \in AnalysisEndings : BkFinish(i, ending))
  /\ WF_vars(BkRespond)

FairSpecBulk == SpecBulk /\ FairBulk

PwdStart == InitPwd /\ IdleRL /\ IdleAgg /\ IdleBulk /\ IdleErr /\ IdleScore /\ IdleOps /\ IdleSess /\ IdleMgr /\ IdleBem

SpecPwd == PwdStart /\ [][NextPwd]_vars

ErrStart == InitErr /\ IdleRL /\ IdleAgg /\ IdleBulk /\ IdlePwd /\ IdleScore /\ IdleOps /\ IdleSess /\ IdleMgr /\ IdleBem

SpecErr == ErrStart /\ [][NextErr]_vars

ScoreStart ==
  InitScore /\ IdleRL /\ IdleAgg /\ IdleBulk /\ IdlePwd /\ IdleErr /\ IdleOps /\ IdleSess /\ IdleMgr /\ IdleBem

SpecScore == ScoreStart /\ [][NextScore]_vars

OpsStart ==
  InitOps /\ IdleRL /\ IdleAgg /\ IdleBulk /\ IdlePwd /\ IdleErr /\ IdleScore /\ IdleSess /\ IdleMgr /\ IdleBem

SpecOps == OpsStart /\ [][NextOps]_vars

SessStart ==
  InitSess /\ IdleRL /\ IdleAgg /\ IdleBulk /\ IdlePwd /\ IdleErr /\ IdleScore /\ IdleOps /\ IdleMgr /\ IdleBem

SpecSess == SessStart /\ [][NextSess]_vars

MgrStart ==
  InitMgr /\ IdleRL /\ IdleAgg /\ IdleBulk /\ IdlePwd /\ IdleErr /\ IdleScore /\ IdleOps /\ IdleSess /\ IdleBem

SpecMgr == MgrStart /\ [][NextMgr]_vars

BemStart ==
  InitBem /\ IdleRL /\ IdleAgg /\ IdleBulk /\ IdlePwd /\ IdleErr /\ IdleScore /\ IdleMgr /\ IdleOps /\ IdleSess

SpecBem == BemStart /\ [][NextBem]_vars

(***************************************************************************)
(* PROPERTIES                                                              *)
(***************************************************************************)
CountIn(s, lo, hi) == Cardinality({ i \in 1..Len(s) : s[i] > lo /\ s[i] <= hi })

SameDayCount(s, t) ==
  Cardinality({ j \in 1..Len(s) : PacificDate(s[j]) = PacificDate(t) })

\* C1: for every sequence of calls to wait_if_needed, one after the other
\* (no two calls in progress together), calls_last_minute never holds more
\* than calls_per_minute entries and calls_today never more than
\* calls_per_day, in every state of the limiter.
C1_WindowsWithinCeilings ==
  (provider = "search" /\ ~overlapped) =>
     /\ Len(calls_last_minute) <= calls_per_minute
     /\ Len(calls_today) <= calls_per_day

\* C2: with several callers interleaving at the limiter's sleeps, no interval
\* of one minute holds more than calls_per_minute admitted calls and no
\* Pacific calendar day more than calls_per_day.
C2_AdmissionsWithinQuota ==
  provider = "search" =>
     /\ \A i \in 1..Len(admitted) :
          CountIn(admitted, admitted[i] - MinuteTicks, admitted[i]) <= calls_per_minute
     /\ \A i \in 1..Len(admitted) :
          SameDayCount(admitted, admitted[i]) <= calls_per_day

Registry == IF dk_kind = "alias" THEN alias_dorking_templates ELSE domain_dorking_templates

\* C4: an aggregation run attempts every planned query whatever fails, no
\* provider error escapes it as an exception, and when it completes
\* successful + failed equals the number of planned queries, for the alias
\* and domain dorking analyses and for an alias search.
C4_EveryQueryAttemptedAndCounted ==
  /\ dk_status # "raised"
  /\ dk_status = "running" =>
        results.successful_queries + results.failed_queries = dk_idx - 1
  /\ dk_status = "done" =>
        /\ dispatched = templates
        /\ results.total_templates_used = Len(templates)
        /\ results.successful_queries + results.failed_queries
             = results.total_templates_used
  /\ sa_status = "returned" =>
        /\ DOMAIN platform_results = SeqToSet(filtered_queries)
        /\ sa_result.summary.total_platforms_searched = Len(filtered_queries)
        /\ sa_result.summary.successful_searches + sa_result.summary.failed_searches
             = sa_result.summary.total_platforms_searched

\* an alias analysis of at least two templates finished although every
\* query failed, one of them outside GoogleSearchAPIError
C4_AllQueriesFailed ==
  /\ dk_status = "done"
  /\ dk_kind = "alias"
  /\ results.total_templates_used >= 2
  /\ results.failed_queries = results.total_templates_used
  /\ \E k \in DOMAIN results.analysis_results :
        results.analysis_results[k].status = "error"

\* C5: when an alias or a domain dorking analysis finishes, analysis_results
\* holds one entry with a status for every planned query, failed ones
\* included, so the entries number successful_queries + failed_queries.
C5_OneEntryPerPlannedQuery ==
  dk_status = "done" =>
     /\ DOMAIN results.analysis_results = { ResultKey(t) : t \in SeqToSet(templates) }
     /\ Cardinality(DOMAIN results.analysis_results)
          = results.successful_queries + results.failed_queries

\* the usernames of the bulk request for which the provider always fails
FailingRequested == SeqToSet(bulk_request.usernames) \cap failingUsers

\* C7: in a bulk alias search in which the provider call always fails for
\* one username, that username is counted as failed and the others as
\* successful, every username is searched, and the failed username's result
\* carries recommendations explaining the failure.
C7_FailingUsernameCountedFailed ==
  ( /\ bulk_status = "returned"
    /\ FilteredQueries(bulk_request.priority, bulk_request.platforms) # << >>
    /\ FailingRequested # {} ) =>
     /\ GlobalSummary.failed_username_searches = Cardinality(FailingRequested)
     /\ GlobalSummary.successful_username_searches
          = Len(bulk_request.usernames) - Cardinality(FailingRequested)
     /\ DOMAIN bulk_results = SeqToSet(bulk_request.usernames)
     /\ \A u \in FailingRequested :
          bulk_results[u].recommendations = FailedSearchResult(u).recommendations

\* C8: for any registry, planning with priority_filter = "medium" selects
\* exactly the templates tagged high or medium (of the requested category,
\* when one is given) and none tagged low.
C8_MediumSelectsHighAndMedium ==
  (dk_status \in {"running", "done"} /\ priority_filter = "medium") =>
     SeqToSet(templates) =
        { t \in SeqToSet(Registry) :
            /\ t.priority \in {"high", "medium"}
            /\ category_filter # None => t.category = category_filter }

\* C9: for every combination of filters the queries of a dorking analysis
\* are dispatched in ascending priority rank, and templates of equal
\* priority in their registry order (objective is the registry position).
C9_DispatchedInPriorityOrder ==
  /\ \A i, j \in 1..Len(dispatched) :
        i < j =>
          /\ PRIORITY_LEVELS(dispatched[i].priority)
               <= PRIORITY_LEVELS(dispatched[j].priority)
          /\ dispatched[i].priority = dispatched[j].priority
               => dispatched[i].objective < dispatched[j].objective
  /\ \A i, j \in 1..Len(Registry) :
        (i < j /\ Registry[i].priority = Registry[j].priority)
          => Registry[i].objective < Registry[j].objective

\* a finished analysis whose sort moved a template forward and kept two
\* templates of one priority in order
C9_SortReordered ==
  /\ dk_status = "done"
  /\ \E i, j \in 1..Len(dispatched) :
        i < j /\ dispatched[i].objective > dispatched[j].objective
  /\ \E i, j \in 1..Len(dispatched) :
        i < j /\ dispatched[i].priority = dispatched[j].priority

\* C6 as stated: while the bulk endpoint gathers, at most max_concurrent
\* analyses are in flight, and every accepted bulk request is eventually
\* answered with all its responses.
C6_BoundedAndCompleted ==
  /\ [](bk_status = "gathering" => InFlight <= max_concurrent)
  /\ (bk_status = "gathering") ~> (bk_status = "responded")

\* every string of the returned structure
ResponseStrings ==
  IF pw_status = "responded" THEN { http_response.hash_suffix, http_response.risk_level }
  ELSE IF pw_status = "failed" THEN { http_response.status_code, http_response.detail }
  ELSE {}

\* every string that leaves check_pwned_password for the provider
RequestStrings(r) == { r.url } \cup UNION { { kv[1], kv[2] } : kv \in r.params }

\* C10: the provider is sent only the first 5 hex characters of the SHA-1
\* digest: two passwords whose digests share them (with the same padding
\* choice) produce the identical request, and neither the plaintext nor the
\* full digest occurs in the request, a log line or the returned structure,
\* which carries only the 35-character suffix.
C10_OnlyPrefixLeaves ==
  /\ \A a, b \in outbound :
        ( /\ SubSeq(sha1(a.password), 1, 5) = SubSeq(sha1(b.password), 1, 5)
          /\ a.add_padding = b.add_padding ) => a.request = b.request
  /\ \A a \in outbound :
        /\ a.request.url = pwned_passwords_url \o "/range/" \o SubSeq(sha1(a.password), 1, 5)
        /\ \A str \in RequestStrings(a.request) :
              ~Contains(str, a.password) /\ ~Contains(str, sha1(a.password))
  /\ pw_status # "idle" =>
        /\ \A k \in 1..Len(log_lines) :
              /\ ~Contains(log_lines[k], password)
              /\ ~Contains(log_lines[k], sha1(password))
        /\ \A str \in ResponseStrings :
              ~Contains(str, password) /\ ~Contains(str, sha1(password))
  /\ pw_status = "responded" =>
        /\ Len(http_response.hash_suffix) = 35
        /\ SubSeq(sha1(password), 1, 5) \o http_response.hash_suffix = sha1(password)

\* two passwords with different digests and one 5-character prefix were both
\* checked with the same padding choice, the second one was found breached
C10_CollidingPrefixesChecked ==
  /\ pw_status = "responded"
  /\ http_response.is_pwned
  /\ \E a, b \in outbound :
        /\ a.password # b.password
        /\ a.add_padding = b.add_padding
        /\ hash_prefix(sha1(a.password)) = hash_prefix(sha1(b.password))
        /\ b.password = password

\* the lines of the response whose part before the colon is the last 35
\* characters of the digest of the password being checked
MatchingLines ==
  { i \in 1..Len(response_data) :
      \E k \in 1..Len(response_data[i]) :
         /\ SubSeq(response_data[i], k, k) = ":"
         /\ SubSeq(response_data[i], 1, k - 1) = SubSeq(sha1(password), 6, 40) }

\* the count written after the colon of line i
ListedCount(i) ==
  CHOOSE n \in {0, PwnCount, 100 * PwnCount} :
     \E k \in 1..Len(response_data[i]) :
        /\ SubSeq(response_data[i], k, k) = ":"
        /\ SubSeq(response_data[i], k + 1, k + Len(ToString(n))) = ToString(n)
        /\ Len(response_data[i]) <= k + Len(ToString(n)) + 1

\* C11: for every password and every range response, the check returns
\* is_pwned = true with pwn_count equal to the listed count exactly when a
\* suffix:count line carries the last 35 characters of the password's digest,
\* and is_pwned = false with pwn_count = 0 when no line does.
C11_PwnedExactlyWhenListed ==
  pw_status = "responded" =>
     IF MatchingLines # {}
     THEN /\ http_response.is_pwned
          /\ \E i \in MatchingLines : http_response.pwn_count = ListedCount(i)
     ELSE /\ ~http_response.is_pwned
          /\ http_response.pwn_count = 0

\* the password was found on the first of two lines (the one that keeps its
\* carriage return), listed with the high count
C11_FoundOnFirstOfTwoLines ==
  /\ pw_status = "responded"
  /\ Len(response_data) = 2
  /\ 1 \in MatchingLines
  /\ http_response.is_pwned
  /\ http_response.pwn_count = 100 * PwnCount

\* the attribute of a raised error that names its kind: error_code, which
\* only VirusTotalAPIError has and which stays None unless it is passed
ErrorKind(error) == IF "error_code" \in DOMAIN error THEN error.error_code ELSE None

\* what the client of the pending call raises when the same response comes
\* with status s
RaisedFor(s) ==
  LET reply == [provider_reply EXCEPT !.status = s, !.message = ProviderMessage(s)]
  IN IF ep_request.endpoint = "reputation" THEN VtMakeRequest(reply)
     ELSE BreachLookupResult(ep_request.endpoint, HibpMakeRequest(reply))

ProviderAnswered ==
  /\ ep_status = "answered"
  /\ ep_request.endpoint \in {"account", "domain", "breaches", "reputation"}
  /\ queries_issued = 1
  /\ ~provider_reply.fault

\* C12: in each provider client a 429, a 401 and a 403 response each raise an
\* error of a kind of its own, different from the kind raised for 5xx
\* responses, and the raised error carries the HTTP status it came from.
C12_DistinctKindsCarryStatus ==
  (ProviderAnswered /\ provider_reply.status \in {429, 401, 403}) =>
     /\ client_outcome.raised
     /\ \A s \in {429, 401, 403, 500, 503} \ {provider_reply.status} :
           ErrorKind(client_outcome.error) # ErrorKind(RaisedFor(s).error)
     /\ "status_code" \in DOMAIN client_outcome.error
     /\ client_outcome.error.status_code = provider_reply.status

BreachAnswered ==
  /\ ProviderAnswered
  /\ ep_request.endpoint \in {"account", "domain", "breaches"}

\* C13: a 404 from the breach provider ends every breach lookup (account,
\* domain, all breaches) successfully with an empty result: the client
\* raises nothing and returns no record, and the endpoint answers 200 with
\* zero breaches.
C13_NotFoundIsEmptySuccess ==
  (BreachAnswered /\ provider_reply.status = 404) =>
     /\ ~client_outcome.raised
     /\ Len(client_outcome.records) = 0
     /\ ep_response.status_code = 200
     /\ IF ep_request.endpoint = "account"
        THEN /\ ~ep_response.body.is_breached
             /\ ep_response.body.breach_count = 0
             /\ Len(ep_response.body.breaches) = 0
             /\ ep_response.body.risk_assessment = "safe"
        ELSE Len(ep_response.body) = 0

C13_AccountNotFound ==
  /\ BreachAnswered
  /\ provider_reply.status = 404
  /\ ep_request.endpoint = "account"
  /\ ep_response.status_code = 200

\* C14: when the breach provider answers with a list of N items, the lookup
\* does not fail and returns one record per item, whether or not every item
\* decodes.
C14_OneRecordPerItem ==
  (BreachAnswered /\ provider_reply.status = 200) =>
     /\ ~client_outcome.raised
     /\ Len(client_outcome.records) = Len(provider_reply.items)
     /\ ep_response.status_code = 200

\* C15: a dorking request with an unsupported target kind or with an unknown
\* template category is answered with a 400-class error, and no provider
\* query is issued for it.
C15_PlanningErrorIsClientError ==
  (/\ ep_status = "answered"
   /\ ep_request.endpoint = "analyze"
   /\ \/ ep_request.target_type \notin {"alias", "domain"}
      \/ /\ ep_request.target_type = "alias"
         /\ ep_request.category_filter \notin Categories \cup {None}) =>
     /\ ep_response.status_code \in 400..499
     /\ queries_issued = 0

Scored == score_calls >= 1

\* the points of a two-tier rule
Tier(x, upper, upperPoints, lower, lowerPoints) ==
  IF x > upper THEN upperPoints ELSE IF x > lower THEN lowerPoints ELSE 0

\* the contributions the payload triggers at the reading t of the clock, rule
\* by rule
TriggeredContributions(t) ==
  LET ti == Get(payload, "threat_intelligence")
      rep == Get(payload, "reputation")
      detections(high, low, susp) ==
        IF {"malicious", "suspicious"} \subseteq DOMAIN ti
        THEN << Tier(ti.malicious, 5, high, 0, low), Tier(ti.suspicious, 3, susp, 3, susp) >>
        ELSE << >>
      ratio(holder) ==
        IF "detection_ratio" \in DOMAIN holder
        THEN << Tier(holder.detection_ratio, 300, 25, 100, 10) >>
        ELSE << >>
  IN CASE target_kind = "ip" ->
            (IF "abuse_confidence" \in DOMAIN rep
             THEN << Tier(rep.abuse_confidence, 75, 40, 25, 20) >> ELSE << >>)
               \o detections(30, 15, 10)
       [] target_kind = "domain" ->
            detections(40, 20, 15) \o ratio(Get(rep, "urlvoid"))
               \o (IF "creation_date" \in DOMAIN Get(payload, "whois_info")
                   THEN << Tier(0 - DaysOld(t, payload.whois_info.creation_date),
                                0 - 30, 15, 0 - 90, 5) >>
                   ELSE << >>)
       [] OTHER ->
            detections(40, 20, 15) \o ratio(rep)
               \o (IF "redirect_count" \in DOMAIN Get(payload, "redirects")
                   THEN << Tier(payload.redirects.redirect_count, 3, 10, 3, 10) >>
                   ELSE << >>)
               \o (IF "status_code" \in DOMAIN Get(payload, "content_analysis")
                   THEN << IF payload.content_analysis.status_code = 200 THEN 0 ELSE 5 >>
                   ELSE << >>)

RECURSIVE SumSeq(_)
SumSeq(s) == IF s = << >> THEN 0 ELSE s[1] + SumSeq(Tail(s))

\* C16: for every payload of the ip, domain and url scripts the score is the
\* sum of the contributions the payload triggers, and it lies in 0..100.
C16_ScoreIsBoundedSum ==
  Scored =>
     /\ last_score.score \in 0..100
     /\ last_score.score = SumSeq(TriggeredContributions(scored_at))

C16_EveryDomainRuleTriggered ==
  /\ Scored
  /\ target_kind = "domain"
  /\ last_score.score = 95
  /\ Len(last_score.factors) = 4

HasDetections == {"malicious", "suspicious"} \subseteq DOMAIN Get(payload, "threat_intelligence")

\* the score of the payload with its malicious count replaced by m
ScoreWithMalicious(m) ==
  calculate_threat_score(target_kind,
                         [payload EXCEPT !.threat_intelligence.malicious = m],
                         scored_at).score

\* C17: with every other signal fixed the score is monotonic non-decreasing
\* in the malicious count: a payload that differs only by a smaller count
\* scores no more, one that differs only by a larger count scores no less.
C17_MonotonicInMalicious ==
  (Scored /\ HasDetections) =>
     \A m \in 0..7 :
        /\ m <= payload.threat_intelligence.malicious =>
              ScoreWithMalicious(m) <= last_score.score
        /\ m >= payload.threat_intelligence.malicious =>
              ScoreWithMalicious(m) >= last_score.score

C17_MoreDetectionsScoreMore ==
  /\ Scored
  /\ HasDetections
  /\ payload.threat_intelligence.malicious = 1
  /\ ScoreWithMalicious(6) > last_score.score
  /\ ScoreWithMalicious(0) < last_score.score

\* C18: two calls of calculate_threat_score on the same payload, made at any
\* two times, return the same score, level and factors.
C18_SamePayloadSameScore ==
  score_calls >= 2 => last_score = first_score

\* C19: the level is decided by the score alone: high exactly from 60 up,
\* medium exactly from 30 to 59, low exactly from 1 to 29, clean exactly at 0.
C19_LevelByBands ==
  Scored =>
     /\ (last_score.level = "high") <=> (last_score.score >= 60)
     /\ (last_score.level = "medium") <=> (last_score.score >= 30 /\ last_score.score < 60)
     /\ (last_score.level = "low") <=> (last_score.score > 0 /\ last_score.score < 30)
     /\ (last_score.level = "clean") <=> (last_score.score = 0)

C19_ScoreSixtyIsHigh ==
  /\ Scored
  /\ last_score.score = 60
  /\ last_score.level = "high"

RecentlyCreatedMalicious ==
  /\ Scored
  /\ target_kind = "domain"
  /\ HasDetections
  /\ payload.threat_intelligence.malicious > 5
  /\ "creation_date" \in DOMAIN Get(payload, "whois_info")
  /\ DaysOld(scored_at, payload.whois_info.creation_date) < 30

\* C20: a domain payload with more than 5 malicious detections and a
\* creation date less than 30 days old scores at least 40 + 15 = 55, its
\* level is medium or high, and its factors hold a malicious-detections entry
\* followed later by a recent-domain entry.
C20_MaliciousThenRecentDomain ==
  RecentlyCreatedMalicious =>
     /\ last_score.score >= 55
     /\ last_score.level \in {"medium", "high"}
     /\ \E i, j \in 1..Len(last_score.factors) :
           /\ i < j
           /\ Contains(last_score.factors[i], "malicious detections")
           /\ Contains(last_score.factors[j], "recent domain")

C20_ExactlyFiftyFive ==
  /\ RecentlyCreatedMalicious
  /\ last_score.score = 55
  /\ last_score.level = "medium"
  /\ Len(last_score.factors) = 2

\* C21: a payload that triggers no rule gets score 0, level clean and no
\* factor; and in the ip, domain and url scoring the score is above 0 exactly
\* when the factors list is not empty.
C21_CleanExactlyWhenNoFactor ==
  Scored =>
     /\ SumSeq(TriggeredContributions(scored_at)) = 0 =>
           /\ last_score.score = 0
           /\ last_score.level = "clean"
           /\ Len(last_score.factors) = 0
     /\ (last_score.score > 0) <=> (Len(last_score.factors) > 0)

C21_IpWithoutSignal ==
  /\ Scored
  /\ target_kind = "ip"
  /\ HasDetections
  /\ payload.threat_intelligence.malicious = 0
  /\ payload.threat_intelligence.suspicious = 0
  /\ "reputation" \notin DOMAIN payload
  /\ last_score = NoScore

InStartOrder(registry) == \A i \in 1..Len(registry) : registry[i].objective = i

\* C23: whatever analyses have run, with or without filters, each template
\* registry holds the same templates in the same order as at process start.
C23_RegistriesUnchanged ==
  /\ InStartOrder(alias_dorking_templates)
  /\ InStartOrder(domain_dorking_templates)


\* the platform-query dicts: every selection of entries, in dict order
PlatformQuerySets ==
  { SelectSeq(PlatformOrder, LAMBDA q : q \in S) : S \in SUBSET Platforms }

WithPriorityIn(queries, priorities) ==
  SelectSeq(queries, LAMBDA q : PlatformPriority(q) \in priorities)

\* C24: filter_by_priority follows the superset rule for every set of
\* platform queries: HIGH keeps only the high-priority platforms, MEDIUM
\* keeps exactly the high and medium ones and no low one, ALL keeps every
\* platform; the result is the input restricted to the kept platforms, each
\* entry unchanged and in the input's order.  A running bulk search without
\* a platform list searches exactly the platforms the rule keeps.
C24_FilterFollowsSupersetRule ==
  /\ \A queries \in PlatformQuerySets :
        /\ filter_by_priority(queries, "high") = WithPriorityIn(queries, {"high"})
        /\ filter_by_priority(queries, "medium")
              = WithPriorityIn(queries, {"high", "medium"})
        /\ \A q \in SeqToSet(filter_by_priority(queries, "medium")) :
              PlatformPriority(q) # "low"
        /\ filter_by_priority(queries, "all") = queries
        /\ \A priority \in SearchPriority :
              SeqToSet(filter_by_priority(queries, priority)) \subseteq SeqToSet(queries)
  /\ ( /\ bulk_status = "running"
       /\ sa_status = "searching"
       /\ bulk_request.platforms = {} ) =>
        filtered_queries =
           CASE bulk_request.priority = "high" -> WithPriorityIn(PlatformOrder, {"high"})
             [] bulk_request.priority = "medium"
                  -> WithPriorityIn(PlatformOrder, {"high", "medium"})
             [] bulk_request.priority = "low"
                  -> WithPriorityIn(PlatformOrder, {"high", "medium", "low"})
             [] OTHER -> PlatformOrder

C24_MediumSearchSkipsLowPlatform ==
  /\ bulk_status = "running"
  /\ sa_status = "searching"
  /\ bulk_request.platforms = {}
  /\ bulk_request.priority = "medium"
  /\ filtered_queries = << "twitter_x", "youtube" >>
  /\ DOMAIN platform_results = {"twitter_x", "youtube"}


\* C25: in every admission attempt of the search limiter the minute-limit
\* check and its wait come before the day-limit check (an attempt enters the
\* minute sleep only from its entry and the day sleep never precedes it);
\* an attempt that finds the day window at capacity suspends until the next
\* Pacific midnight, so it is admitted on a later Pacific day than the one
\* on which it entered, and it then clears both windows: right after that
\* admission each window holds exactly the call just admitted.  Stated for
\* a limiter used by one caller at a time.
C25_DaySleepEndsAtPacificReset ==
  [][\A c \in Callers :
       /\ pc'[c] = "minute_sleep" => pc[c] \in {"idle", "minute_sleep"}
       /\ (pc[c] # "day_sleep" /\ pc'[c] = "day_sleep") =>
             /\ pc[c] \in {"idle", "minute_sleep"}
             /\ DayLimitReached(calls_today', calls_per_day)
       /\ (~overlapped /\ pc[c] = "day_sleep" /\ pc'[c] = "grace_sleep") =>
             /\ PacificDate(now) > PacificDate(now_utc[c])
             /\ calls_today' = << now >>
             /\ calls_last_minute' = << now >>]_vars


\* C26: every outbound request of the search client is preceded by exactly
\* one admission on its limiter: whenever no operation is in progress, the
\* number of calls the limiter has recorded equals the number of requests
\* sent, leaving aside the operations that ended before sending one.
C26_OneAdmissionPerRequest ==
  gs_pc = "idle" => gs_recorded = gs_requests + gs_unsent


\* C27: the reputation client's daily quota is a rolling 24-hour window:
\* with one request at a time, no interval of 24 hours contains more than
\* requests_per_day admitted requests, and the daily counter is reset only
\* when more than 24 hours have passed since the previous reset.
C27_RollingDayWithinQuota ==
  /\ []((provider = "reputation" /\ ~overlapped) =>
          \A i \in 1..Len(admitted) :
             CountIn(admitted, admitted[i] - DayTicks, admitted[i]) <= requests_per_day)
  /\ [][last_reset_time' # last_reset_time =>
           /\ now - last_reset_time > DayTicks
           /\ last_reset_time' = now]_vars


\* C28: for any sequence of enter, request and exit operations, a provider
\* client never has two of its own sessions open at once, has no open
\* session left after a release, and a request that was sent went through
\* the one session the client holds.
C28_OneSessionNoneAfterRelease ==
  /\ Cardinality(cl_open) <= 1
  /\ cl_last = "exit" => cl_open = {}
  /\ (cl_last = "request" /\ cl_sent = "sent") => cl_open = {cl_session}


\* C29: on shutdown, cleanup terminates the script subprocess of every
\* analysis task still running and leaves active_tasks empty: in the state
\* cleanup produces no task's subprocess is running and active_tasks holds
\* no entry.
C29_CleanupTerminatesRunningScripts ==
  [][manager' = "stopped" /\ manager = "serving" =>
        /\ \A t \in TaskIds : process'[t] # "running"
        /\ active_tasks' = NoTasks]_vars


\* the query of template t was folded into the results by this step
QueryFolded(t) ==
  /\ dk_status = "running"
  /\ dk_idx <= Len(templates)
  /\ t = templates[dk_idx]
  /\ dk_idx' = dk_idx + 1

\* C30: high_value_findings gains one entry for a query exactly when that
\* query is high priority, succeeded and returned at least one item, and
\* the entry carries a preview of the first items returned, at most 3; a
\* failed query, a medium- or low-priority query and a query without items
\* add no entry.
C30_HighValueExactlyForItems ==
  [][\A t \in SeqToSet(templates) :
       QueryFolded(t) =>
         LET succeeded ==
               results'.successful_queries = results.successful_queries + 1
             items ==
               IF succeeded THEN results'.analysis_results[ResultKey(t)].items
               ELSE << >>
             before == results.high_value_findings
             after == results'.high_value_findings
         IN IF t.priority = "high" /\ succeeded /\ Len(items) > 0
            THEN /\ Len(after) = Len(before) + 1
                 /\ SubSeq(after, 1, Len(before)) = before
                 /\ after[Len(after)].objective = t.objective
                 /\ "preview_items" \in DOMAIN after[Len(after)]
                 /\ after[Len(after)].preview_items = Preview(items)
                 /\ Len(after[Len(after)].preview_items) <= PreviewItems
            ELSE after = before]_vars


\* C31: a response of the reputation provider with HTTP status 204 is
\* returned by _make_request as the empty result {"data": {}} and never as
\* an error, whatever the body of the response is.
C31_NoContentIsEmptyResult ==
  ( /\ ep_status = "answered"
    /\ ep_request.endpoint = "reputation"
    /\ ~provider_reply.fault
    /\ provider_reply.status = 204 ) =>
     /\ ~client_outcome.raised
     /\ client_outcome.data = "empty"


StatusRank(status) ==
  CASE status = "pending" -> 0
    [] status = "processing" -> 1
    [] OTHER -> 2

\* C32: an asynchronous analysis task only moves forward through PENDING,
\* PROCESSING and then SUCCESS or ERROR: while the task is in active_tasks
\* its status never goes back, a task with a terminal status is never
\* changed, and whenever the status is SUCCESS or ERROR the stored result
\* is an AnalysisResponse with that same status.
C32_StatusOnlyMovesForward ==
  /\ [](\A t \in DOMAIN active_tasks :
          active_tasks[t].status \in {"success", "error"} =>
             active_tasks[t].result.status = active_tasks[t].status)
  /\ [][\A t \in DOMAIN active_tasks \cap DOMAIN active_tasks' :
          /\ StatusRank(active_tasks'[t].status) >= StatusRank(active_tasks[t].status)
          /\ active_tasks[t].status \in {"success", "error"} =>
                active_tasks'[t] = active_tasks[t]]_vars

C32_TaskEndedInError ==
  \E t \in DOMAIN active_tasks :
     /\ active_tasks[t].status = "error"
     /\ active_tasks[t].result.status = "error"
     /\ coroutine[t] = "finished"


\* C33: the result of a finished asynchronous task is delivered exactly
\* once: a get_analysis_result call for a task that has reached SUCCESS or
\* ERROR returns its final result and removes the task, a call for an id
\* that is not (or no longer) in active_tasks returns nothing, and a call
\* made before completion returns a pending/processing response with the
\* same task_id and leaves the task in active_tasks.
C33_ResultDeliveredOnce ==
  /\ [](\A t \in TaskIds :
          /\ delivered[t] <= 1
          /\ delivered[t] = 1 => t \notin DOMAIN active_tasks)
  /\ [][get_calls' = get_calls + 1 =>
          LET t == got'.asked
          IN IF t \notin DOMAIN active_tasks
             THEN /\ got'.kind = "none"
                  /\ active_tasks' = active_tasks
             ELSE IF active_tasks[t].status \in {"success", "error"}
             THEN /\ got'.kind = "final"
                  /\ got'.status = active_tasks[t].status
                  /\ t \notin DOMAIN active_tasks'
                  /\ \A u \in DOMAIN active_tasks \ {t} :
                        /\ u \in DOMAIN active_tasks'
                        /\ active_tasks'[u] = active_tasks[u]
             ELSE /\ got'.kind = "progress"
                  /\ got'.status \in {"pending", "processing"}
                  /\ got'.status = active_tasks[t].status
                  /\ got'.task_id = t
                  /\ active_tasks' = active_tasks]_vars

C33_SecondCallFindsNothing ==
  /\ got.kind = "none"
  /\ got.asked # NoTaskId
  /\ delivered[got.asked] = 1


\* C34: in every reachable state of the AnalysisManager total_requests
\* equals successful_analyses plus failed_analyses plus the number of
\* analyze_target calls in flight.
C34_EveryRequestCountedOnce ==
  stats.total_requests
     = stats.successful_analyses + stats.failed_analyses + InFlight

\* C35: during one bulk email check, any two consecutive requests to the
\* breach provider are at least min_request_interval (1.5 seconds) apart.
C35_BulkRequestsSpaced ==
  \A i \in 1..Len(be_sent) - 1 :
    be_sent[i + 1] - be_sent[i] >= min_request_interval


\* C36: on one reputation client, any two admitted requests are at least
\* 60/requests_per_minute seconds apart, also when several requests are
\* in progress on the client at once and interleave at the limiter's sleep.
C36_AdmissionsSpacedByMinInterval ==
  provider = "reputation" =>
    \A i \in 1..Len(admitted) - 1 :
      requests_per_minute * (admitted[i + 1] - admitted[i]) >= MinuteTicks


\* C37: in every password-check result, is_pwned is true exactly when
\* pwn_count > 0, and risk_level is "safe" exactly when is_pwned is false,
\* for every range response of the provider, padded ones included.
C37_PwnedExactlyWhenCounted ==
  pw_status = "responded" =>
    /\ http_response.is_pwned <=> http_response.pwn_count > 0
    /\ http_response.risk_level = "safe" <=> ~http_response.is_pwned

====
